---- MODULE Spec2Model ----
(***************************************************************************)
(* Extended PL/0 toolchain: P-Code interpreter (stack/heap store, first-fit *)
(* free list, debugger entry points), basic-block optimizer, and the part  *)
(* of the recursive-descent code generator that produces the programs the  *)
(* interpreter runs.                                                        *)
(***************************************************************************)
EXTENDS Integers, Sequences, FiniteSets, TLC

VARIABLES
    code,          \* Interpreter::code_ (instruction vector, address p is code[p+1])
    breakpoints,   \* Interpreter::breakpoints_
    P, B, T, H,    \* registers
    store,         \* Interpreter::store_ (function on 0..size-1; empty before start)
    freeListHead,  \* Interpreter::freeListHead_
    running,       \* Interpreter::running_
    debugState,    \* Interpreter::debugState_
    errorMessage,  \* Interpreter::errorMessage_ (<<>> when empty, else <<msg, pc>>)
    output,        \* integers written by WRT, in order
    input,         \* integers still to be read by RED
    mode,          \* position of the client inside an entry point
    initialLine,   \* stepOver's local initialLine
    op,            \* entry point called last
    callExec,      \* instructions executed by the call in progress / last call (capped)
    entryState,    \* debugState at entry of the last call
    starts,        \* number of start() calls on this interpreter
    codeOob,       \* code_ was indexed outside [0, size)
    prog,          \* the program as emitted by the parser
    ref,           \* observable result of the unoptimized run
    phase,         \* "orig" while running prog, "opt" while running optimize(prog)
    live,          \* heap addresses returned by allocate and not yet deallocated
    freed,         \* heap addresses deallocated and not handed out again since
    trail,         \* the last heap operations, newest last
    symTable,      \* the SymbolTable object of the compilation
    pendingInputAddr, \* target address of the RED parked for input, -1 when none
    lexer          \* the Lexer object of the compilation with the tokens it returned

vars == <<code, breakpoints, P, B, T, H, store, freeListHead, running,
          debugState, errorMessage, output, input, mode, initialLine, op,
          callExec, entryState, starts, codeOob, prog, ref, phase, live, freed,
          trail, symTable, pendingInputAddr, lexer>>

----------------------------------------------------------------------------
(* Bounds of the model *)

StoreSize == 16          \* Interpreter::setStoreSize value used by the model
MaxStarts == 2           \* start() calls explored per interpreter
MaxHeapOps == 8          \* heap operations explored in the allocator specification

MaxArr == 2              \* largest declared array size in the array specification
MaxAlloc == 2            \* largest block size requested in the allocator specification
ExecCap == 2             \* callExec counts the instructions of a call up to here

Garbage == {0, 1}        \* values an out-of-range store read may yield

Count(n) == IF n < ExecCap THEN n + 1 ELSE n

----------------------------------------------------------------------------
(* Instruction model (Instruction.h) *)

RET == 0
NEG == 1
ADD == 2
SUB == 3
MUL == 4
DIV == 5
ODD == 6
MOD == 7
EQL == 8
NEQ == 9
LSS == 10
GEQ == 11
GTR == 12
LEQ == 13

Instruction(o, l, a, ln) == [op |-> o, L |-> l, A |-> a, line |-> ln]

\* code_[p]
At(c, p) == c[p + 1]

InCode(c, p) == p >= 0 /\ p < Len(c)

----------------------------------------------------------------------------
(* Store access.  store_ is a std::vector<int>; an index outside it is      *)
(* undefined behaviour: a read yields the garbage value g, a write is lost. *)

In(s, a) == a \in DOMAIN s

Get(s, a, g) == IF In(s, a) THEN s[a] ELSE g

Put(s, a, v) == IF In(s, a) THEN [s EXCEPT ![a] = v] ELSE s

\* C++ integer division and remainder truncate toward zero
Abs(x) == IF x < 0 THEN -x ELSE x

CDiv(a, b) == IF (a < 0) = (b < 0) THEN Abs(a) \div Abs(b) ELSE -(Abs(a) \div Abs(b))

CMod(a, b) == a - b * CDiv(a, b)

----------------------------------------------------------------------------
(* Interpreter::base *)

RECURSIVE base(_, _, _, _)
base(s, L, b, g) ==
    IF L > 0 THEN base(s, L - 1, Get(s, b, g), g) ELSE b

\* store words read by base(L, b)
RECURSIVE baseAcc(_, _, _, _)
baseAcc(s, L, b, g) ==
    IF L > 0 THEN {b} \cup baseAcc(s, L - 1, Get(s, b, g), g) ELSE {}

----------------------------------------------------------------------------
(* Interpreter::runtimeError, Interpreter::checkCollision *)

runtimeError(m, msg) ==
    [m EXCEPT !.errorMessage = <<msg, m.P - 1>>, !.running = FALSE]

checkCollision(m) ==
    IF m.T >= m.H
    THEN runtimeError(m, "stack overflow (stack/heap collision)")
    ELSE m

----------------------------------------------------------------------------
(* Interpreter::allocate.  h is the heap part of the machine:               *)
(* [store, H, freeListHead]; t is T_.  The result carries the new heap, the *)
(* returned address, whether the list walk never ends (a cyclic list: the   *)
(* while loop spins forever) and whether the store was indexed out of range.*)

\* the first-fit search loop: while (curr != -1) { if (store_[curr] >= totalSize) ... }
RECURSIVE allocWalk(_, _, _, _, _, _)
allocWalk(s, prev, curr, totalSize, fuel, g) ==
    IF curr = -1
    THEN [prev |-> prev, curr |-> curr, hang |-> FALSE, ub |-> FALSE]
    ELSE IF fuel = 0
    THEN [prev |-> prev, curr |-> curr, hang |-> TRUE, ub |-> FALSE]
    ELSE IF Get(s, curr, g) >= totalSize
    THEN [prev |-> prev, curr |-> curr, hang |-> FALSE, ub |-> ~In(s, curr)]
    ELSE LET r == allocWalk(s, curr, Get(s, curr + 1, g), totalSize, fuel - 1, g)
         IN  [r EXCEPT !.ub = r.ub \/ ~In(s, curr) \/ ~In(s, curr + 1)]

\* carving at the high end of block curr instead: the remainder keeps the
\* block's address and links, the allocated block is its last totalSize words
allocSplitHigh(h, prev, curr, size, g) ==
    LET totalSize == size + 1
        remaining == Get(h.store, curr, g) - totalSize
        acc == {curr, curr + remaining}
    IN  [h    |-> [store |-> Put(Put(h.store, curr, remaining), curr + remaining, size),
                   H |-> h.H, freeListHead |-> h.freeListHead],
         addr |-> curr + remaining + 1, hang |-> FALSE,
         ub   |-> \E a \in acc : ~In(h.store, a)]

\* if (remaining >= 2): carve totalSize words at the low end of block curr
allocSplit(h, prev, curr, size, g) ==
    LET totalSize   == size + 1
        remaining   == Get(h.store, curr, g) - totalSize
        nextFree    == Get(h.store, curr + 1, g)
        newFreeNode == curr + totalSize
        s1 == Put(Put(h.store, newFreeNode, remaining), newFreeNode + 1, nextFree)
        s2 == IF prev = -1 THEN s1 ELSE Put(s1, prev + 1, newFreeNode)
        acc == {curr, curr + 1, newFreeNode, newFreeNode + 1}
                 \cup (IF prev = -1 THEN {} ELSE {prev + 1})
    IN  [h    |-> [store |-> Put(s2, curr, size), H |-> h.H,
                   freeListHead |-> IF prev = -1 THEN newFreeNode ELSE h.freeListHead],
         addr |-> curr + 1, hang |-> FALSE,
         ub   |-> \E a \in acc : ~In(h.store, a)]

\* else: perfect fit, or a remainder too small to split: unlink block curr
allocWhole(h, prev, curr, size, g) ==
    LET nextFree == Get(h.store, curr + 1, g)
        s1 == IF prev = -1 THEN h.store ELSE Put(h.store, prev + 1, nextFree)
        acc == {curr, curr + 1} \cup (IF prev = -1 THEN {} ELSE {prev + 1})
    IN  [h    |-> [store |-> Put(s1, curr, size), H |-> h.H,
                   freeListHead |-> IF prev = -1 THEN nextFree ELSE h.freeListHead],
         addr |-> curr + 1, hang |-> FALSE,
         ub   |-> \E a \in acc : ~In(h.store, a)]

\* no block fits: H_ -= totalSize; if (H_ <= T_) return -1
allocGrow(h, t, size) ==
    LET newH == h.H - (size + 1)
    IN  IF newH <= t
        THEN [h |-> [h EXCEPT !.H = newH], addr |-> -1, hang |-> FALSE, ub |-> FALSE]
        ELSE [h |-> [h EXCEPT !.H = newH, !.store = Put(h.store, newH, size)],
              addr |-> newH + 1, hang |-> FALSE, ub |-> ~In(h.store, newH)]

allocate(h, t, size, g) ==
    LET totalSize == size + 1
        w == allocWalk(h.store, -1, h.freeListHead, totalSize, StoreSize + 2, g)
    IN  IF w.hang
        THEN [h |-> h, addr |-> -1, hang |-> TRUE, ub |-> w.ub]
        ELSE IF w.curr # -1
        THEN LET r == IF Get(h.store, w.curr, g) - totalSize >= 2
                      THEN allocSplit(h, w.prev, w.curr, size, g)
                      ELSE allocWhole(h, w.prev, w.curr, size, g)
             IN  [r EXCEPT !.ub = r.ub \/ w.ub]
        ELSE LET r == allocGrow(h, t, size)
             IN  [r EXCEPT !.ub = r.ub \/ w.ub]

----------------------------------------------------------------------------
(* Interpreter::deallocate *)

\* while (curr != -1 && curr < blockHeader) { prev = curr; curr = store_[curr + 1]; }
RECURSIVE deallocWalk(_, _, _, _, _, _)
deallocWalk(s, prev, curr, blockHeader, fuel, g) ==
    IF curr = -1 \/ ~(curr < blockHeader)
    THEN [prev |-> prev, curr |-> curr, hang |-> FALSE, ub |-> FALSE]
    ELSE IF fuel = 0
    THEN [prev |-> prev, curr |-> curr, hang |-> TRUE, ub |-> FALSE]
    ELSE LET r == deallocWalk(s, curr, Get(s, curr + 1, g), blockHeader, fuel - 1, g)
         IN  [r EXCEPT !.ub = r.ub \/ ~In(s, curr + 1)]

\* step 1 of the insertion: link with (or absorb) the successor curr
deallocLinkNext(s, blockHeader, totalSize, curr, g) ==
    IF curr # -1 /\ blockHeader + totalSize = curr
    THEN [store |-> Put(Put(s, blockHeader, totalSize + Get(s, curr, g)),
                        blockHeader + 1, Get(s, curr + 1, g)),
          totalSize |-> totalSize + Get(s, curr, g),
          acc |-> {curr, curr + 1, blockHeader, blockHeader + 1}]
    ELSE [store |-> Put(Put(s, blockHeader, totalSize), blockHeader + 1, curr),
          totalSize |-> totalSize,
          acc |-> {blockHeader, blockHeader + 1}]

\* step 2 of the insertion: link with (or merge into) the predecessor prev
deallocLinkPrev(h, n, blockHeader, prev, g) ==
    IF prev # -1
    THEN LET prevSize == Get(n.store, prev, g)
         IN  IF prev + prevSize = blockHeader
             THEN [store |-> Put(Put(n.store, prev, prevSize + n.totalSize),
                                 prev + 1, Get(n.store, blockHeader + 1, g)),
                   H |-> h.H, freeListHead |-> h.freeListHead]
             ELSE [store |-> Put(n.store, prev + 1, blockHeader),
                   H |-> h.H, freeListHead |-> h.freeListHead]
    ELSE [store |-> n.store, H |-> h.H, freeListHead |-> blockHeader]

deallocate(h, address, g) ==
    IF address <= 0 \/ address >= StoreSize
    THEN [h |-> h, hang |-> FALSE, ub |-> FALSE]
    ELSE LET blockHeader == address - 1
             size      == Get(h.store, blockHeader, g)
             w == deallocWalk(h.store, -1, h.freeListHead, blockHeader, StoreSize + 2, g)
             n == deallocLinkNext(h.store, blockHeader, size + 1, w.curr, g)
             accPrev == IF w.prev = -1 THEN {} ELSE {w.prev, w.prev + 1}
         IN  IF w.hang
             THEN [h |-> h, hang |-> TRUE, ub |-> w.ub]
             ELSE [h    |-> deallocLinkPrev(h, n, blockHeader, w.prev, g),
                   hang |-> FALSE,
                   ub   |-> w.ub \/ \E a \in n.acc \cup accPrev : ~In(h.store, a)]

----------------------------------------------------------------------------
(* Interpreter::executeOpr.  The result is the machine and the store words  *)
(* the sub-operation touched.                                               *)

Bool(b) == IF b THEN 1 ELSE 0

\* the binary sub-operations other than DIV and MOD: T_--; store_[T_] = store_[T_] o store_[T_+1]
binary(m, opr, g) ==
    LET x == Get(m.store, m.T - 1, g)
        y == Get(m.store, m.T, g)
        v == CASE opr = ADD -> x + y
               [] opr = SUB -> x - y
               [] opr = MUL -> x * y
               [] opr = EQL -> Bool(x = y)
               [] opr = NEQ -> Bool(x # y)
               [] opr = LSS -> Bool(x < y)
               [] opr = GEQ -> Bool(x >= y)
               [] opr = GTR -> Bool(x > y)
               [] opr = LEQ -> Bool(x <= y)
    IN  [m EXCEPT !.T = m.T - 1, !.store = Put(m.store, m.T - 1, v)]

executeOpr(m, opr, g) ==
    CASE opr = RET ->
           [m   |-> [m EXCEPT !.T = m.B - 1,
                              !.P = Get(m.store, m.B + 2, g),
                              !.B = Get(m.store, m.B + 1, g),
                              !.running = IF m.B = 0 THEN FALSE ELSE m.running],
            acc |-> {m.B + 2, m.B + 1}]
      [] opr = NEG ->
           [m   |-> [m EXCEPT !.store = Put(m.store, m.T, -Get(m.store, m.T, g))],
            acc |-> {m.T}]
      [] opr = ODD ->
           [m   |-> [m EXCEPT !.store = Put(m.store, m.T, CMod(Get(m.store, m.T, g), 2))],
            acc |-> {m.T}]
      [] opr \in {DIV, MOD} ->
           LET x == Get(m.store, m.T - 1, g)
               y == Get(m.store, m.T, g)
               m1 == [m EXCEPT !.T = m.T - 1]
           IN  [m   |-> IF y = 0
                        THEN runtimeError(m1, IF opr = DIV THEN "division by zero"
                                                           ELSE "modulo by zero")
                        ELSE [m1 EXCEPT !.store = Put(m.store, m.T - 1,
                                 IF opr = DIV THEN CDiv(x, y) ELSE CMod(x, y))],
                acc |-> {m.T - 1, m.T}]
      [] opr \in {ADD, SUB, MUL, EQL, NEQ, LSS, GEQ, GTR, LEQ} ->
           [m |-> binary(m, opr, g), acc |-> {m.T - 1, m.T}]
      [] OTHER -> [m |-> m, acc |-> {}]

----------------------------------------------------------------------------
(* Interpreter::executeOne.  c is code_, m the machine with the fetched     *)
(* instruction at m.P.  The result: the machine after the instruction, the  *)
(* returned bool, whether the instruction never returns (hang) and whether  *)
(* it indexed the store out of range (ub).                                  *)

\* an early "return false" out of the switch: debugState_ is left as it is
earlyReturn(m, acc) ==
    [m |-> m, ret |-> FALSE, hang |-> FALSE, ub |-> \E a \in acc : ~In(m.store, a)]

\* the end of executeOne without the test of running_
afterSwitchKeepsState(m0, m, acc) ==
    [m    |-> m,
     ret  |-> m.running,
     hang |-> FALSE,
     ub   |-> \E a \in acc : ~In(m0.store, a)]

\* break out of the switch: if (!running_) { debugState_ = HALTED; return false; } return true;
afterSwitch(m0, m, acc) ==
    [m    |-> IF ~m.running THEN [m EXCEPT !.debugState = "HALTED"] ELSE m,
     ret  |-> m.running,
     hang |-> FALSE,
     ub   |-> \E a \in acc : ~In(m0.store, a)]

accessViolation == "access violation: invalid address"

opLOD(m0, m, instr, g) ==
    IF instr.A = 0
    THEN LET addr == Get(m.store, m.T, g)
         IN  IF addr < 0 \/ addr >= StoreSize
             THEN earlyReturn(runtimeError([m EXCEPT !.T = m.T - 1], accessViolation), {m.T})
             ELSE afterSwitch(m0,
                      checkCollision([m EXCEPT !.store = Put(m.store, m.T, Get(m.store, addr, g))]),
                      {m.T, addr})
    ELSE LET a == base(m.store, instr.L, m.B, g) + instr.A
         IN  afterSwitch(m0,
                 checkCollision([m EXCEPT !.T = m.T + 1,
                                          !.store = Put(m.store, m.T + 1, Get(m.store, a, g))]),
                 {a, m.T + 1} \cup baseAcc(m.store, instr.L, m.B, g))

opSTO(m0, m, instr, g) ==
    IF instr.A = 0
    THEN LET value == Get(m.store, m.T, g)
             addr  == Get(m.store, m.T - 1, g)
         IN  IF addr < 0 \/ addr >= StoreSize
             THEN earlyReturn(runtimeError([m EXCEPT !.T = m.T - 2], accessViolation),
                              {m.T, m.T - 1})
             ELSE afterSwitch(m0,
                      [m EXCEPT !.T = m.T - 2, !.store = Put(m.store, addr, value)],
                      {m.T, m.T - 1, addr})
    ELSE LET a == base(m.store, instr.L, m.B, g) + instr.A
         IN  afterSwitch(m0,
                 [m EXCEPT !.T = m.T - 1, !.store = Put(m.store, a, Get(m.store, m.T, g))],
                 {a, m.T} \cup baseAcc(m.store, instr.L, m.B, g))

\* a CAL that takes the frame base one word too low
opCALBelowReserved(m0, m, instr, g) ==
    LET paramCount == Get(m.store, m.T, g)
        newBase    == (m.T - 1) - paramCount - 3
        s1 == Put(m.store, newBase, base(m.store, instr.L, m.B, g))
        s2 == Put(s1, newBase + 1, m.B)
        s3 == Put(s2, newBase + 2, m.P)
    IN  IF newBase < 0
        THEN earlyReturn(runtimeError([m EXCEPT !.T = m.T - 1], "stack underflow during call"),
                         {m.T})
        ELSE afterSwitch(m0,
                 [m EXCEPT !.T = m.T - 1, !.store = s3, !.B = newBase, !.P = instr.A],
                 {m.T, newBase, newBase + 1, newBase + 2}
                     \cup baseAcc(m.store, instr.L, m.B, g))

opCAL(m0, m, instr, g) ==
    LET paramCount == Get(m.store, m.T, g)
        newBase    == (m.T - 1) - paramCount - 2
        s1 == Put(m.store, newBase, base(m.store, instr.L, m.B, g))
        s2 == Put(s1, newBase + 1, m.B)
        s3 == Put(s2, newBase + 2, m.P)
    IN  IF newBase < 0
        THEN earlyReturn(runtimeError([m EXCEPT !.T = m.T - 1], "stack underflow during call"),
                         {m.T})
        ELSE afterSwitch(m0,
                 [m EXCEPT !.T = m.T - 1, !.store = s3, !.B = newBase, !.P = instr.A],
                 {m.T, newBase, newBase + 1, newBase + 2}
                     \cup baseAcc(m.store, instr.L, m.B, g))

\* std::cin >> value; an exhausted or malformed input yields 0
opRED(m0, m, instr, g) ==
    LET value == IF m.input = <<>> THEN 0 ELSE Head(m.input)
        rest  == IF m.input = <<>> THEN <<>> ELSE Tail(m.input)
        m1    == [m EXCEPT !.input = rest]
    IN  IF instr.A = 0
        THEN LET addr == Get(m.store, m.T, g)
             IN  IF addr < 0 \/ addr >= StoreSize
                 THEN earlyReturn(runtimeError([m1 EXCEPT !.T = m.T - 1], accessViolation),
                                  {m.T})
                 ELSE afterSwitch(m0,
                          [m1 EXCEPT !.T = m.T - 1, !.store = Put(m.store, addr, value)],
                          {m.T, addr})
        ELSE LET a == base(m.store, instr.L, m.B, g) + instr.A
             IN  afterSwitch(m0, [m1 EXCEPT !.store = Put(m.store, a, value)],
                             {a} \cup baseAcc(m.store, instr.L, m.B, g))

opNEW(m0, m, instr, g) ==
    LET size == Get(m.store, m.T, g)
        m1   == [m EXCEPT !.T = m.T - 1]
        r    == allocate([store |-> m.store, H |-> m.H, freeListHead |-> m.freeListHead],
                         m.T - 1, size, g)
        m2   == [m1 EXCEPT !.store = r.h.store, !.H = r.h.H,
                           !.freeListHead = r.h.freeListHead]
    IN  IF size <= 0
        THEN earlyReturn(runtimeError(m1, "invalid allocation size"), {m.T})
        ELSE IF r.hang
        THEN [m |-> m1, ret |-> FALSE, hang |-> TRUE, ub |-> r.ub]
        ELSE IF r.addr = -1
        THEN LET e == earlyReturn(runtimeError(m2, "out of memory (heap exhausted)"), {})
             IN  [e EXCEPT !.ub = r.ub \/ ~In(m.store, m.T)]
        ELSE LET a == afterSwitch(m0, [m2 EXCEPT !.T = m.T,
                                                 !.store = Put(r.h.store, m.T, r.addr)],
                                  {m.T})
             IN  [a EXCEPT !.ub = a.ub \/ r.ub]

opDEL(m0, m, instr, g) ==
    LET addr == Get(m.store, m.T, g)
        r    == deallocate([store |-> m.store, H |-> m.H, freeListHead |-> m.freeListHead],
                           addr, g)
        m1   == [m EXCEPT !.T = m.T - 1, !.store = r.h.store, !.H = r.h.H,
                          !.freeListHead = r.h.freeListHead]
    IN  IF r.hang
        THEN [m |-> [m EXCEPT !.T = m.T - 1], ret |-> FALSE, hang |-> TRUE, ub |-> r.ub]
        ELSE LET a == afterSwitch(m0, m1, {m.T})
             IN  [a EXCEPT !.ub = a.ub \/ r.ub]

executeOne(c, m0, g) ==
    LET instr == At(c, m0.P)
        m     == [m0 EXCEPT !.P = m0.P + 1]
    IN  CASE instr.op = "LIT" ->
               afterSwitch(m0, checkCollision([m EXCEPT !.T = m.T + 1,
                                                    !.store = Put(m.store, m.T + 1, instr.A)]),
                           {m.T + 1})
          [] instr.op = "LOD" -> opLOD(m0, m, instr, g)
          [] instr.op = "STO" -> opSTO(m0, m, instr, g)
          [] instr.op = "CAL" -> opCAL(m0, m, instr, g)
          [] instr.op = "INT" ->
               afterSwitch(m0, checkCollision([m EXCEPT !.T = m.T + instr.A]), {})
          [] instr.op = "JMP" -> afterSwitch(m0, [m EXCEPT !.P = instr.A], {})
          [] instr.op = "JPC" ->
               afterSwitch(m0, [m EXCEPT !.T = m.T - 1,
                                         !.P = IF Get(m.store, m.T, g) = 0 THEN instr.A ELSE m.P],
                           {m.T})
          [] instr.op = "OPR" ->
               LET r == executeOpr(m, instr.A, g) IN afterSwitch(m0, r.m, r.acc)
          [] instr.op = "RED" -> opRED(m0, m, instr, g)
          [] instr.op = "WRT" ->
               afterSwitch(m0, [m EXCEPT !.T = m.T - 1,
                                         !.output = Append(m.output, Get(m.store, m.T, g))],
                           {m.T})
          [] instr.op = "NEW" -> opNEW(m0, m, instr, g)
          [] instr.op = "DEL" -> opDEL(m0, m, instr, g)
          [] instr.op = "LAD" ->
               afterSwitch(m0, [m EXCEPT !.T = m.T + 1,
                                         !.store = Put(m.store, m.T + 1,
                                                       base(m.store, instr.L, m.B, g) + instr.A)],
                           {m.T + 1} \cup baseAcc(m.store, instr.L, m.B, g))
          [] OTHER -> earlyReturn(runtimeError(m, "unknown opcode"), {})

----------------------------------------------------------------------------
(* Symbol table (SymbolTable.cpp).  A table is the record of the object's   *)
(* members; hashTable_ is a function from the names that have an entry to   *)
(* their index lists, head first.                                           *)

\* SymbolTable::SymbolTable
SymbolTable ==
    [symbolStack_ |-> <<>>, allSymbols_ |-> <<>>, hashTable_ |-> <<>>,
     scopeStack_ |-> <<0>>, currentLevel_ |-> 0]

\* symbolStack_[index], indices counting from 0
getSymbol(t, index) == t.symbolStack_[index + 1]

\* SymbolTable::enterScope
enterScope(t) ==
    [t EXCEPT !.currentLevel_ = @ + 1,
              !.scopeStack_ = Append(@, Len(t.symbolStack_))]

\* an index list with the new index appended at the back
addToHashTableBack(h, name, index) ==
    [n \in DOMAIN h \cup {name} |->
        IF n = name
        THEN (IF name \in DOMAIN h THEN h[name] ELSE <<>>) \o <<index>>
        ELSE h[n]]

\* SymbolTable::addToHashTable: push_front on the list of the name
addToHashTable(h, name, index) ==
    [n \in DOMAIN h \cup {name} |->
        IF n = name
        THEN <<index>> \o (IF name \in DOMAIN h THEN h[name] ELSE <<>>)
        ELSE h[n]]

\* erasing the whole entry of the name instead of one index
eraseFromHashTable(h, name, index) ==
    IF name \notin DOMAIN h THEN h
    ELSE [n \in DOMAIN h \ {name} |-> h[n]]

\* SymbolTable::removeFromHashTable
removeFromHashTable(h, name, index) ==
    IF name \notin DOMAIN h THEN h
    ELSE LET keep(i) == i # index
             rest    == SelectSeq(h[name], keep)
         IN  IF rest = <<>>
             THEN [n \in DOMAIN h \ {name} |-> h[n]]
             ELSE [h EXCEPT ![name] = rest]

\* the loop of leaveScope: pop symbols down to scopeStart
RECURSIVE popSymbols(_, _)
popSymbols(t, scopeStart) ==
    IF Len(t.symbolStack_) > scopeStart
    THEN LET sym == t.symbolStack_[Len(t.symbolStack_)]
         IN  popSymbols([t EXCEPT
                 !.hashTable_ = removeFromHashTable(@, sym.name, sym.tableIndex),
                 !.symbolStack_ = SubSeq(@, 1, Len(@) - 1)], scopeStart)
    ELSE t

\* SymbolTable::leaveScope
leaveScope(t) ==
    IF t.currentLevel_ = 0 THEN t
    ELSE LET scopeStart == t.scopeStack_[Len(t.scopeStack_)]
             popped     == popSymbols([t EXCEPT !.scopeStack_ = SubSeq(@, 1, Len(@) - 1)],
                                      scopeStart)
         IN  [popped EXCEPT !.currentLevel_ = @ - 1]

\* SymbolTable::lookup
lookup(t, name) ==
    IF name \notin DOMAIN t.hashTable_ \/ t.hashTable_[name] = <<>>
    THEN -1
    ELSE Head(t.hashTable_[name])

\* a lookupCurrentScope that accepts the innermost symbol of any level
lookupCurrentScopeAnyLevel(t, name) ==
    IF name \notin DOMAIN t.hashTable_ \/ t.hashTable_[name] = <<>>
    THEN -1
    ELSE Head(t.hashTable_[name])

\* SymbolTable::lookupCurrentScope
lookupCurrentScope(t, name) ==
    IF name \notin DOMAIN t.hashTable_ \/ t.hashTable_[name] = <<>>
    THEN -1
    ELSE LET index == Head(t.hashTable_[name])
         IN  IF getSymbol(t, index).level = t.currentLevel_ THEN index ELSE -1

\* SymbolTable::registerSymbol: the value returned and the table left
registerSymbol(t, name, kind, address) ==
    IF lookupCurrentScope(t, name) >= 0
    THEN [ret |-> -1, table |-> t]
    ELSE LET sym == [name |-> name, kind |-> kind, level |-> t.currentLevel_,
                     address |-> address,
                     tableIndex |-> Len(t.symbolStack_),
                     historyIndex |-> Len(t.allSymbols_)]
         IN  [ret |-> sym.tableIndex,
              table |-> [t EXCEPT
                  !.symbolStack_ = Append(@, sym),
                  !.allSymbols_ = Append(@, sym),
                  !.hashTable_ = addToHashTable(@, name, sym.tableIndex)]]

\* SymbolTable::updateSymbolAddress
updateSymbolAddress(t, index, address) ==
    LET histIdx == getSymbol(t, index).historyIndex
    IN  [t EXCEPT !.symbolStack_[index + 1].address = address,
                  !.allSymbols_ =
                      IF histIdx >= 0 /\ histIdx < Len(@)
                      THEN [@ EXCEPT ![histIdx + 1].address = address]
                      ELSE @]

----------------------------------------------------------------------------
(* Code generation (Parser.cpp).  The token stream is given in parsed form: *)
(* a statement is a record with its kind k and the line ln of its tokens.   *)
(* Every program of the model declares                                      *)
(*     var x, p: pointer;   [procedure f(); begin ... end;]                 *)
(* so the main block (level 1 after parseBlock's enterScope) holds x at     *)
(* offset 4 and p at offset 5 (offset 3 is the bounds-check temporary), and *)
(* f is a level-1 procedure whose parameters, if any, are n and m (offsets  *)
(* 3 and 4 of its frame), possibly with a procedure g declared inside it.   *)
(* A program with an array                                                  *)
(* declares  var x, p: pointer, a[n];  the descriptor of a is at offsets 6  *)
(* (heap address) and 7 (size).                                             *)

\* savedDataOffset of parseBlock: the first offset parseVarDecl hands out
savedDataOffset == 4

\* every declaration taking one word
declWordsOneEach(kind) == 1

\* the words parseVarDecl advances dataOffset by: an array takes a
\* two-word descriptor, a variable or a pointer one word
declWords(kind) == IF kind = "array" THEN 2 ELSE 1

\* dataOffset after the first k declarations
RECURSIVE offsetAfter(_, _, _)
offsetAfter(decls, k, dataOffset) ==
    IF k = 0 THEN dataOffset
    ELSE offsetAfter(decls, k - 1, dataOffset) + declWords(decls[k].kind)

\* Parser::parseVarDecl: the symbols registered and the dataOffset left
parseVarDecl(decls, dataOffset) ==
    [symbols |-> [i \in 1..Len(decls) |->
                     [name |-> decls[i].name, kind |-> decls[i].kind,
                      address |-> offsetAfter(decls, i - 1, dataOffset)]],
     dataOffset |-> offsetAfter(decls, Len(decls), dataOffset)]

\* var x, p: pointer [, a[size]];
VarDecls(size) ==
    << [name |-> "x", kind |-> "variable"], [name |-> "p", kind |-> "pointer"] >>
      \o (IF size > 0 THEN <<[name |-> "a", kind |-> "array"]>> ELSE <<>>)

\* the parameter names of procedure f, which declares a prefix of them
ParamNames == <<"n", "m">>

\* the symbol a name resolves to: a parameter of f (level 2, offset 3 + i)
\* or a variable of the main block (level 1, offset given by parseVarDecl)
Sym(name) ==
    IF \E i \in 1..Len(ParamNames) : ParamNames[i] = name
    THEN [level |-> 2,
          address |-> 3 + (CHOOSE i \in 1..Len(ParamNames) : ParamNames[i] = name) - 1]
    ELSE LET syms == parseVarDecl(VarDecls(1), savedDataOffset).symbols
         IN  [level |-> 1,
              address |-> syms[CHOOSE i \in 1..Len(syms) : syms[i].name = name].address]

\* currentTempOffset_ in the main block
MainTempOffset == 3

\* savedDataOffset after parseVarDecl when no array is declared
MainDataOffset == parseVarDecl(VarDecls(0), savedDataOffset).dataOffset

\* currentTempOffset_ while the block of env is parsed
tempOffset(env) == IF "temp" \in DOMAIN env THEN env.temp ELSE MainTempOffset

\* the parameters procedure pd declares
params(pd) == IF "params" \in DOMAIN pd THEN pd.params ELSE <<>>

\* dataOffset of a procedure without parameters: currentTempOffset_ (3) + 1
ProcDataOffset == 4

\* Parser::parseExpression / parseTerm / parseFactor; env.level is
\* symTable_.getCurrentLevel(), ln the line of the tokens
RECURSIVE parseExpression(_, _, _)
parseExpression(e, env, ln) ==
    CASE e.k = "num"   -> <<Instruction("LIT", 0, e.v, ln)>>
      [] e.k = "id"    -> <<Instruction("LOD", env.level - Sym(e.name).level,
                                        Sym(e.name).address, ln)>>
      [] e.k = "addr"  -> <<Instruction("LAD", env.level - Sym(e.name).level,
                                        Sym(e.name).address, ln)>>
      [] e.k = "deref" -> parseExpression(e.e, env, ln) \o <<Instruction("LOD", 0, 0, ln)>>
      [] e.k = "neg"   -> parseExpression(e.e, env, ln) \o <<Instruction("OPR", 0, NEG, ln)>>
      [] e.k = "bin"   -> parseExpression(e.l, env, ln) \o parseExpression(e.r, env, ln)
                            \o <<Instruction("OPR", 0, e.o, ln)>>

\* Parser::parseCondition
parseCondition(c, env, ln) ==
    IF c.k = "odd"
    THEN parseExpression(c.e, env, ln) \o <<Instruction("OPR", 0, ODD, ln)>>
    ELSE parseExpression(c.l, env, ln) \o parseExpression(c.r, env, ln)
           \o <<Instruction("OPR", 0, c.o, ln)>>

\* the procedure symbol a call statement finds: f (level 1) unless the
\* statement names g (level 2, declared inside f), with the address the
\* symbol holds when the statement is parsed
procSym(st, env) ==
    IF "proc" \in DOMAIN st /\ st.proc = "g"
    THEN [level |-> 2, address |-> env.gAddr]
    ELSE [level |-> 1, address |-> env.procAddr]

\* the actual arguments of a call, parsed left to right
RECURSIVE parseArgs(_, _, _)
parseArgs(args, env, ln) ==
    IF args = <<>> THEN <<>>
    ELSE parseExpression(Head(args), env, ln) \o parseArgs(Tail(args), env, ln)

\* the actual arguments call statement st names
argsOf(st) == IF "args" \in DOMAIN st THEN st.args ELSE <<>>

\* Parser::parseCallStatement for "call f(...)" and "call g()"
parseCallStatement(st, env) ==
    <<Instruction("INT", 0, 3, st.ln)>>
      \o parseArgs(argsOf(st), env, st.ln)
      \o << Instruction("LIT", 0, Len(argsOf(st)), st.ln),
            Instruction("CAL", env.level - procSym(st, env).level,
                        procSym(st, env).address, st.ln) >>

\* Parser::parseArrayElementAddress for a[index] with the bound on the index
\* never tested against the size
parseArrayElementAddressNoUpper(index, env, ln, at) ==
    LET levelDiff == env.level - Sym("a").level
        idx       == parseExpression(index, env, ln)
        errorAddr == at + 1 + Len(idx) + 8
    IN  <<Instruction("LOD", levelDiff, Sym("a").address, ln)>>
          \o idx
          \o << Instruction("STO", 0, tempOffset(env), ln),
                Instruction("LOD", 0, tempOffset(env), ln),
                Instruction("LIT", 0, 0, ln),
                Instruction("OPR", 0, GEQ, ln),
                Instruction("JPC", 0, errorAddr, ln),
                Instruction("LOD", 0, tempOffset(env), ln),
                Instruction("OPR", 0, ADD, ln),
                Instruction("JMP", 0, errorAddr + 3, ln),
                Instruction("LIT", 0, 0, ln),
                Instruction("LIT", 0, 0, ln),
                Instruction("OPR", 0, DIV, ln) >>

\* Parser::parseArrayElementAddress for a[index], a declared as an array; at
\* is codeGen_.getNextAddr() when it starts
parseArrayElementAddress(index, env, ln, at) ==
    LET levelDiff == env.level - Sym("a").level
        idx       == parseExpression(index, env, ln)
        errorAddr == at + 1 + Len(idx) + 12
    IN  <<Instruction("LOD", levelDiff, Sym("a").address, ln)>>
          \o idx
          \o << Instruction("STO", 0, tempOffset(env), ln),
                Instruction("LOD", 0, tempOffset(env), ln),
                Instruction("LIT", 0, 0, ln),
                Instruction("OPR", 0, GEQ, ln),
                Instruction("JPC", 0, errorAddr, ln),
                Instruction("LOD", 0, tempOffset(env), ln),
                Instruction("LOD", levelDiff, Sym("a").address + 1, ln),
                Instruction("OPR", 0, LSS, ln),
                Instruction("JPC", 0, errorAddr, ln),
                Instruction("LOD", 0, tempOffset(env), ln),
                Instruction("OPR", 0, ADD, ln),
                Instruction("JMP", 0, errorAddr + 3, ln),
                Instruction("LIT", 0, 0, ln),
                Instruction("LIT", 0, 0, ln),
                Instruction("OPR", 0, DIV, ln) >>

\* code_ once frag has been emitted from address at on; the instructions
\* below at are those emitted earlier, which the statement does not touch
codeFrom(at, frag) ==
    [i \in 1..(at + Len(frag)) |->
        IF i <= at THEN Instruction("LIT", 0, 0, 0) ELSE frag[i - at]]

\* the instructions of c from address at on
since(c, at) == SubSeq(c, at + 1, Len(c))

\* a backpatch that leaves the placeholder in place
backpatchSkipped(c, instrAddr, targetAddr) == c

\* CodeGenerator::backpatch
backpatch(c, instrAddr, targetAddr) ==
    IF instrAddr >= 0 /\ instrAddr < Len(c)
    THEN [c EXCEPT ![instrAddr + 1].A = targetAddr]
    ELSE c

\* Parser::parseStatement and the statement parsers it dispatches to; at is
\* codeGen_.getNextAddr() when the statement starts
RECURSIVE parseStatement(_, _, _)

\* Parser::parseIfStatement without else, once condition c and statement
\* body are emitted: the JPC between them is backpatched past the body
ifCode(st, at, c, body) ==
    LET jpcAddr == at + Len(c)
    IN  c \o <<Instruction("JPC", 0, jpcAddr + 1 + Len(body), st.ln)>> \o body

\* Parser::parseIfStatement with else, once c, body and alt are emitted: the
\* JPC is backpatched past the JMP that ends the body, the JMP past alt
ifElseCode(st, at, c, body, alt) ==
    LET jpcAddr == at + Len(c)
        jmpAddr == jpcAddr + 1 + Len(body)
    IN  c \o <<Instruction("JPC", 0, jmpAddr + 1, st.ln)>> \o body
          \o <<Instruction("JMP", 0, jmpAddr + 1 + Len(alt), st.then.ln)>> \o alt

\* Parser::parseIfStatement after the then statement
parseElse(st, env, at, c, body) ==
    ifElseCode(st, at, c, body,
               parseStatement(st.else, env, at + Len(c) + 1 + Len(body) + 1))

\* Parser::parseIfStatement after the condition
parseIfStatement(st, env, at, c) ==
    IF st.k = "if"
    THEN ifCode(st, at, c, parseStatement(st.then, env, at + Len(c) + 1))
    ELSE parseElse(st, env, at, c, parseStatement(st.then, env, at + Len(c) + 1))

\* Parser::parseWhileStatement once c and body are emitted: the JPC is
\* backpatched past the JMP back to the condition
whileCode(st, at, c, body) ==
    LET jpcAddr == at + Len(c)
    IN  c \o <<Instruction("JPC", 0, jpcAddr + 2 + Len(body), st.ln)>> \o body
          \o <<Instruction("JMP", 0, at, st.do.ln)>>

\* Parser::parseWhileStatement after the condition
parseWhileStatement(st, env, at, c) ==
    whileCode(st, at, c, parseStatement(st.do, env, at + Len(c) + 1))

\* the initialisation of the loop variable of a for statement
forInit(st, env) ==
    parseExpression(st.from, env, st.ln)
      \o <<Instruction("STO", env.level - Sym(st.name).level, Sym(st.name).address, st.ln)>>

\* the test of the loop variable against the bound, ending in the exit JPC
\* with placeholder target 0
forTest(st, env) ==
    <<Instruction("LOD", env.level - Sym(st.name).level, Sym(st.name).address, st.ln)>>
      \o parseExpression(st.to, env, st.ln)
      \o << Instruction("OPR", 0, IF st.downto THEN GEQ ELSE LEQ, st.ln),
            Instruction("JPC", 0, 0, st.ln) >>

\* Parser::parseForStatement once init, test and body are emitted: the step
\* and the JMP to loopStart follow, and the exit JPC is backpatched past them
forCode(st, env, at, init, test, body) ==
    LET levelDiff == env.level - Sym(st.name).level
        address   == Sym(st.name).address
        loopStart == at + Len(init)
        exitJpc   == loopStart + Len(test) - 1
        step      == << Instruction("LOD", levelDiff, address, st.do.ln),
                        Instruction("LIT", 0, 1, st.do.ln),
                        Instruction("OPR", 0, IF st.downto THEN SUB ELSE ADD, st.do.ln),
                        Instruction("STO", levelDiff, address, st.do.ln),
                        Instruction("JMP", 0, loopStart, st.do.ln) >>
        endAddr   == at + Len(init) + Len(test) + Len(body) + Len(step)
    IN  since(backpatch(codeFrom(at, init \o test \o body \o step), exitJpc, endAddr), at)

\* Parser::parseForStatement after the test: for name := from to|downto to do body
parseForStatement(st, env, at, init, test) ==
    forCode(st, env, at, init, test,
            parseStatement(st.do, env, at + Len(init) + Len(test)))

parseStatement(st, env, at) ==
    CASE st.k = "assign" ->
           parseExpression(st.e, env, st.ln)
             \o <<Instruction("STO", env.level - Sym(st.name).level, Sym(st.name).address, st.ln)>>
      [] st.k = "write" ->
           parseExpression(st.e, env, st.ln) \o <<Instruction("WRT", 0, 0, st.ln)>>
      [] st.k = "read" ->
           <<Instruction("RED", env.level - Sym(st.name).level, Sym(st.name).address, st.ln)>>
      [] st.k = "call" -> parseCallStatement(st, env)
      [] st.k = "new" ->
           parseExpression(st.e, env, st.ln)
             \o << Instruction("NEW", 0, 0, st.ln),
                   Instruction("STO", env.level - Sym(st.name).level, Sym(st.name).address, st.ln) >>
      [] st.k = "delete" ->
           << Instruction("LOD", env.level - Sym(st.name).level, Sym(st.name).address, st.ln),
              Instruction("DEL", 0, 0, st.ln) >>
      [] st.k = "ptrassign" ->
           parseExpression(st.t, env, st.ln) \o parseExpression(st.e, env, st.ln)
             \o <<Instruction("STO", 0, 0, st.ln)>>
      [] st.k \in {"if", "ifelse"} ->
           parseIfStatement(st, env, at, parseCondition(st.c, env, st.ln))
      [] st.k = "while" ->
           parseWhileStatement(st, env, at, parseCondition(st.c, env, st.ln))
      [] st.k = "elemassign" ->     \* a[index] := e
           parseArrayElementAddress(st.index, env, st.ln, at)
             \o parseExpression(st.e, env, st.ln)
             \o <<Instruction("STO", 0, 0, st.ln)>>
      [] st.k = "elemwrite" ->      \* write(a[index])
           parseArrayElementAddress(st.index, env, st.ln, at)
             \o << Instruction("LOD", 0, 0, st.ln), Instruction("WRT", 0, 0, st.ln) >>
      [] st.k = "elemread" ->       \* read(a[index])
           parseArrayElementAddress(st.index, env, st.ln, at)
             \o <<Instruction("RED", 0, 0, st.ln)>>
      [] st.k = "elemaddr" ->       \* name := &a[index]
           parseArrayElementAddress(st.index, env, st.ln, at)
             \o <<Instruction("STO", env.level - Sym(st.name).level, Sym(st.name).address, st.ln)>>
      [] st.k = "for" ->
           parseForStatement(st, env, at, forInit(st, env), forTest(st, env))
      [] st.k = "empty" -> <<>>

\* Parser::parseBody after its first statement
RECURSIVE parseBody(_, _, _)
bodyFrom(first, rest, env, at) == first \o parseBody(rest, env, at + Len(first))

\* Parser::parseBody: begin stmt {; stmt} end
parseBody(stmts, env, at) ==
    IF stmts = <<>> THEN <<>>
    ELSE bodyFrom(parseStatement(Head(stmts), env, at), Tail(stmts), env, at)

\* Parser::parseProcDecl for "procedure g(); begin ... end;" declared inside f,
\* starting at address at: f was registered with address 0 and is updated
\* only after its nested procedures
parseNestedProcDecl(pd, at) ==
    LET entry == at + 1
        env   == [level |-> 3, procAddr |-> 0, gAddr |-> entry, temp |-> 3]
    IN  << Instruction("JMP", 0, entry, pd.ln),
           Instruction("INT", 0, ProcDataOffset, pd.ln) >>
          \o parseBody(pd.body, env, entry + 1)
          \o <<Instruction("OPR", 0, RET, pd.endLn)>>

\* the code of the procedures nested in pd, the first at address at
nestedProcs(pd, at) ==
    IF "nested" \in DOMAIN pd THEN parseNestedProcDecl(pd.nested, at) ELSE <<>>

\* Parser::parseProcDecl after the declarations nested in pd were parsed into
\* nested: the JMP over them is backpatched to the entry, which reserves the
\* linkage words and the parameters before the body
procCode(pd, at, nested) ==
    LET entry  == at + 1 + Len(nested)
        env    == [level |-> 2, procAddr |-> entry, gAddr |-> at + 2,
                   temp |-> 3 + Len(params(pd))]
    IN  <<Instruction("JMP", 0, entry, pd.ln)>>
          \o nested
          \o <<Instruction("INT", 0, ProcDataOffset + Len(params(pd)), pd.ln)>>
          \o parseBody(pd.body, env, entry + 1)
          \o <<Instruction("OPR", 0, RET, pd.endLn)>>

\* Parser::parseProcDecl for "procedure f(); [procedure g(); ...] begin ... end;"
\* starting at address at
parseProcDecl(pd, at) == procCode(pd, at, nestedProcs(pd, at + 1))

\* parseBlock's loop over arrayIndices: allocate the array and fill its descriptor
arrayInit(size, ln) ==
    IF size = 0 THEN <<>>
    ELSE << Instruction("LIT", 0, size, ln),
            Instruction("NEW", 0, 0, ln),
            Instruction("STO", 0, Sym("a").address, ln),
            Instruction("LIT", 0, size, ln),
            Instruction("STO", 0, Sym("a").address + 1, ln) >>

\* Parser::parseBlock(-1) for the main program after its procedure
\* declarations were parsed into procs; the address recorded for f is the one
\* the JMP at the head of procs was backpatched to
blockCode(a, procs) ==
    LET start   == 1 + Len(procs)
        env     == [level |-> 1,
                    procAddr |-> IF a.hasProc THEN procs[1].A ELSE 2]
        size    == IF "arrSize" \in DOMAIN a THEN a.arrSize ELSE 0
        init    == arrayInit(size, a.declLn)
    IN  <<Instruction("JMP", 0, start, 1)>>
          \o procs
          \o <<Instruction("INT", 0, parseVarDecl(VarDecls(size), savedDataOffset).dataOffset,
                            a.declLn)>>
          \o init
          \o parseBody(a.main, env, start + 1 + Len(init))
          \o <<Instruction("OPR", 0, RET, a.endLn)>>

\* Parser::parseBlock(-1) for the main program
parseBlock(a) ==
    blockCode(a, IF a.hasProc THEN parseProcDecl(a.proc, 1) ELSE <<>>)

\* the address updateSymbolAddress records last for procedure name of source a
finalAddress(a, name) ==
    IF name = "g"
    THEN 3        \* JMP main, JMP f, JMP g, then g's INT
    ELSE 2 + Len(nestedProcs(a.proc, 2))

\* registerSymbol for each declaration of a sequence, in order
RECURSIVE registerAll(_, _)
registerAll(t, syms) ==
    IF syms = <<>> THEN t
    ELSE registerAll(registerSymbol(t, Head(syms).name, Head(syms).kind,
                                    Head(syms).address).table,
                     Tail(syms))

\* the symbol table calls of parseProcDecl for g, declared inside f without
\* parameters: the name is registered with address 0 and the entry address
\* recorded once the scope of the body is open
declareNested(t, a, pd) ==
    LET reg == registerSymbol(t, "g", "procedure", 0)
    IN  leaveScope(updateSymbolAddress(enterScope(reg.table), reg.ret,
                                       finalAddress(a, "g")))

\* the symbol table calls of parseProcDecl for f: the name is registered
\* with address 0, the parameters in a new scope, then the procedure nested
\* in f, and only then the entry address of f is recorded
declareProc(t, a, pd) ==
    LET reg    == registerSymbol(t, "f", "procedure", 0)
        ps     == params(pd)
        scoped == registerAll(enterScope(reg.table),
                              [i \in 1..Len(ps) |->
                                  [name |-> ps[i], kind |-> "variable", address |-> 3 + i - 1]])
        inner  == IF "nested" \in DOMAIN pd THEN declareNested(scoped, a, pd.nested)
                  ELSE scoped
    IN  leaveScope(updateSymbolAddress(inner, reg.ret, finalAddress(a, "f")))

\* the symbol table after Parser::parse on source a
parseSymbols(a) ==
    LET size == IF "arrSize" \in DOMAIN a THEN a.arrSize ELSE 0
        main == registerAll(enterScope(SymbolTable),
                            parseVarDecl(VarDecls(size), savedDataOffset).symbols)
    IN  leaveScope(IF a.hasProc THEN declareProc(main, a, a.proc) ELSE main)

----------------------------------------------------------------------------
(* Optimizer (Optimizer.cpp).  A basic block is                             *)
(* [id, originalStartAddr, instructions]; blocks_ is a sequence of them,    *)
(* the block with id i at position i+1.                                     *)

IsJump(i) == i.op = "JMP" \/ i.op = "JPC"

IsRet(i) == i.op = "OPR" /\ i.A = RET

\* Optimizer::analyzeJumpTargets
analyzeJumpTargets(c) == { c[i].A : i \in { j \in 1..Len(c) : IsJump(c[j]) } }

\* the addresses at which buildBasicBlocks starts a block
Leaders(c, targets) ==
    {0} \cup { i \in 1..(Len(c) - 1) :
                 i \in targets \/ IsJump(At(c, i - 1)) \/ IsRet(At(c, i - 1)) }

\* the elements of a finite set of integers in ascending order
RECURSIVE Sorted(_)
Sorted(S) ==
    IF S = {} THEN <<>>
    ELSE LET lo == CHOOSE x \in S : \A y \in S : x <= y
         IN  <<lo>> \o Sorted(S \ {lo})

\* Optimizer::buildBasicBlocks
buildBasicBlocks(c, targets) ==
    IF c = <<>> THEN <<>>
    ELSE LET first == Sorted(Leaders(c, targets))
             end(k) == IF k < Len(first) THEN first[k + 1] ELSE Len(c)
         IN  [ k \in 1..Len(first) |->
                 [id |-> k - 1,
                  originalStartAddr |-> first[k],
                  instructions |-> SubSeq(c, first[k] + 1, end(k))] ]

Foldable(opr, v2) ==
    opr \in {ADD, SUB, MUL, EQL, NEQ, LSS, GEQ, GTR, LEQ} \/ (opr = DIV /\ v2 # 0)

FoldValue(opr, v1, v2) ==
    CASE opr = ADD -> v1 + v2
      [] opr = SUB -> v1 - v2
      [] opr = MUL -> v1 * v2
      [] opr = DIV -> CDiv(v1, v2)
      [] opr = EQL -> Bool(v1 = v2)
      [] opr = NEQ -> Bool(v1 # v2)
      [] opr = LSS -> Bool(v1 < v2)
      [] opr = GEQ -> Bool(v1 >= v2)
      [] opr = GTR -> Bool(v1 > v2)
      [] opr = LEQ -> Bool(v1 <= v2)

\* one sweep of constantFolding's inner while loop, from position i (1-based)
RECURSIVE foldPass(_, _)
foldPass(insts, i) ==
    IF i > Len(insts) THEN <<>>
    ELSE IF i + 2 <= Len(insts)
            /\ insts[i].op = "LIT" /\ insts[i + 1].op = "LIT" /\ insts[i + 2].op = "OPR"
            /\ Foldable(insts[i + 2].A, insts[i + 1].A)
    THEN <<Instruction("LIT", 0, FoldValue(insts[i + 2].A, insts[i].A, insts[i + 1].A), 0)>>
           \o foldPass(insts, i + 3)
    ELSE <<insts[i]>> \o foldPass(insts, i + 1)

\* Optimizer::constantFolding: sweep until a sweep changes nothing
RECURSIVE constantFolding(_)
constantFolding(insts) ==
    IF Len(insts) < 3 THEN insts
    ELSE LET optim == foldPass(insts, 1)
         IN  IF optim = insts THEN insts ELSE constantFolding(optim)

\* a strength reduction that emits the JMP for "LIT 0; JPC" without skipping
\* the two instructions it replaces
RECURSIVE strengthReductionNoSkip(_, _)
strengthReductionNoSkip(insts, i) ==
    IF i > Len(insts) THEN <<>>
    ELSE IF i + 1 <= Len(insts) /\ insts[i].op = "LIT" /\ insts[i + 1].op = "OPR"
    THEN IF (insts[i].A = 0 /\ insts[i + 1].A \in {ADD, SUB})
              \/ (insts[i].A = 1 /\ insts[i + 1].A \in {MUL, DIV})
         THEN strengthReductionNoSkip(insts, i + 2)
         ELSE <<insts[i]>> \o strengthReductionNoSkip(insts, i + 1)
    ELSE IF i + 1 <= Len(insts) /\ insts[i].op = "LIT" /\ insts[i + 1].op = "JPC"
    THEN IF insts[i].A = 0
         THEN <<Instruction("JMP", insts[i + 1].L, insts[i + 1].A, 0), insts[i]>>
                \o strengthReductionNoSkip(insts, i + 1)
         ELSE strengthReductionNoSkip(insts, i + 2)
    ELSE <<insts[i]>> \o strengthReductionNoSkip(insts, i + 1)

\* Optimizer::strengthReduction, from position i (1-based)
RECURSIVE strengthReduction(_, _)
strengthReduction(insts, i) ==
    IF i > Len(insts) THEN <<>>
    ELSE IF i + 1 <= Len(insts) /\ insts[i].op = "LIT" /\ insts[i + 1].op = "OPR"
    THEN IF (insts[i].A = 0 /\ insts[i + 1].A \in {ADD, SUB})
              \/ (insts[i].A = 1 /\ insts[i + 1].A \in {MUL, DIV})
         THEN strengthReduction(insts, i + 2)
         ELSE <<insts[i]>> \o strengthReduction(insts, i + 1)
    ELSE IF i + 1 <= Len(insts) /\ insts[i].op = "LIT" /\ insts[i + 1].op = "JPC"
    THEN IF insts[i].A = 0
         THEN <<Instruction("JMP", insts[i + 1].L, insts[i + 1].A, 0)>>
                \o strengthReduction(insts, i + 2)
         ELSE strengthReduction(insts, i + 2)
    ELSE <<insts[i]>> \o strengthReduction(insts, i + 1)

\* step 2 of optimize: the local passes on every block
optimizeBlocks(blocks) ==
    [ k \in 1..Len(blocks) |->
        [blocks[k] EXCEPT !.instructions =
            strengthReduction(constantFolding(blocks[k].instructions), 1)] ]

\* the id of the block that starts at address a, or -1 (addrToBlock)
addrToBlock(blocks, a) ==
    IF \E k \in 1..Len(blocks) : blocks[k].originalStartAddr = a
    THEN (CHOOSE k \in 1..Len(blocks) : blocks[k].originalStartAddr = a) - 1
    ELSE -1

\* Optimizer::buildCFG: the successor ids of block b
successors(blocks, b) ==
    IF b.instructions = <<>> THEN {}
    ELSE LET last    == b.instructions[Len(b.instructions)]
             target  == IF IsJump(last) /\ addrToBlock(blocks, last.A) # -1
                        THEN {addrToBlock(blocks, last.A)} ELSE {}
             fallsThrough == ~(last.op = "JMP") /\ ~IsRet(last)
             next    == IF fallsThrough /\ b.id + 1 < Len(blocks) THEN {b.id + 1} ELSE {}
         IN  target \cup next

\* Optimizer::markReachable: the ids reached from the ids in seen
RECURSIVE markReachable(_, _)
markReachable(blocks, seen) ==
    LET more == UNION { successors(blocks, blocks[id + 1]) : id \in seen }
    IN  IF more \subseteq seen THEN seen ELSE markReachable(blocks, seen \cup more)

\* pass 1 of flattenAndRemap: addressMap_[originalStartAddr] of reachable block k
RECURSIVE newAddr(_, _, _)
newAddr(blocks, reach, k) ==
    IF k = 1 THEN 0
    ELSE newAddr(blocks, reach, k - 1)
           + (IF (k - 2) \in reach THEN Len(blocks[k - 1].instructions) ELSE 0)

remap(blocks, reach, instr) ==
    IF IsJump(instr) /\ addrToBlock(blocks, instr.A) # -1
                     /\ addrToBlock(blocks, instr.A) \in reach
    THEN [instr EXCEPT !.A = newAddr(blocks, reach, addrToBlock(blocks, instr.A) + 1)]
    ELSE instr

\* pass 2 of flattenAndRemap, from block k on
RECURSIVE flattenAndRemap(_, _, _)
flattenAndRemap(blocks, reach, k) ==
    IF k > Len(blocks) THEN <<>>
    ELSE (IF (k - 1) \in reach
          THEN [ j \in 1..Len(blocks[k].instructions) |->
                   remap(blocks, reach, blocks[k].instructions[j]) ]
          ELSE <<>>)
         \o flattenAndRemap(blocks, reach, k + 1)

\* Optimizer::optimize
optimize(c) ==
    LET blocks == optimizeBlocks(buildBasicBlocks(c, analyzeJumpTargets(c)))
        reach  == IF blocks = <<>> THEN {} ELSE markReachable(blocks, {0})
    IN  flattenAndRemap(blocks, reach, 1)

----------------------------------------------------------------------------
(* The interpreter as a state machine *)

machine == <<P, B, T, H, store, freeListHead, running, debugState, errorMessage,
             output, input>>

optVars == <<prog, ref, phase>>

heapVars == <<live, freed, trail>>

\* the Interpreter object as a record
M == [P |-> P, B |-> B, T |-> T, H |-> H, store |-> store,
      freeListHead |-> freeListHead, running |-> running,
      debugState |-> debugState, errorMessage |-> errorMessage,
      output |-> output, input |-> input]

SetM(m) ==
    /\ P' = m.P /\ B' = m.B /\ T' = m.T /\ H' = m.H /\ store' = m.store
    /\ freeListHead' = m.freeListHead /\ running' = m.running
    /\ debugState' = m.debugState /\ errorMessage' = m.errorMessage
    /\ output' = m.output /\ input' = m.input

\* The outcomes of one executeOne() call: the instruction's effect; when it
\* indexes the store out of range, its effect for every garbage value read,
\* or the death of the process.  stuck: the call never returns.
Outcomes(c, m) ==
    LET r0 == executeOne(c, m, 0)
        ok(r) == [m |-> r.m, ret |-> r.ret, stuck |-> r.hang]
    IN  IF r0.ub
        THEN { ok(executeOne(c, m, g)) : g \in Garbage }
               \cup { [m |-> m, ret |-> FALSE, stuck |-> TRUE] }
        ELSE { ok(r0) }

\* Interpreter::Interpreter: the object right after construction on code c
NewInterpreter(c, in) ==
    /\ code = c
    /\ breakpoints = {}
    /\ P = 0 /\ B = 0 /\ T = 0 /\ H = 0
    /\ store = <<>>
    /\ freeListHead \in {-1, 0}      \* not initialized by the constructor
    /\ running = FALSE
    /\ debugState = "HALTED"
    /\ errorMessage = <<>>
    /\ output = <<>>
    /\ input = in
    /\ mode = "idle"
    /\ initialLine = 0
    /\ op = "new"
    /\ callExec = 0
    /\ entryState = "HALTED"
    /\ starts = 0
    /\ codeOob = FALSE
    /\ pendingInputAddr = -1

\* no Lexer object exists while the interpreter, the parser or the optimizer is exercised
NoLexer == <<>>

\* a freshly constructed interpreter, no lexer
Constructed(c, in) ==
    /\ NewInterpreter(c, in)
    /\ lexer = NoLexer

\* Interpreter::start: store_.resize keeps the words of an earlier run
startEffect ==
    /\ store' = [i \in 0..(StoreSize - 1) |-> IF In(store, i) THEN store[i] ELSE 0]
    /\ P' = 0 /\ B' = 0 /\ T' = 0
    /\ H' = StoreSize
    /\ freeListHead' = -1
    /\ running' = TRUE
    /\ debugState' = "RUNNING"
    /\ starts' = starts + 1
    /\ UNCHANGED <<errorMessage, output, input>>

Start ==
    /\ mode = "idle"
    /\ starts < MaxStarts
    /\ startEffect
    /\ op' = "start" /\ callExec' = 0 /\ entryState' = debugState
    /\ UNCHANGED <<code, breakpoints, mode, initialLine, codeOob, optVars, heapVars, symTable, pendingInputAddr, lexer>>

\* the source lines a client may name
Lines == {2, 4, 5}

\* Interpreter::setBreakpoint
SetBreakpoint ==
    /\ mode = "idle"
    /\ \E line \in Lines \ breakpoints : breakpoints' = breakpoints \cup {line}
    /\ op' = "setBreakpoint"
    /\ UNCHANGED <<code, machine, mode, initialLine, callExec, entryState, starts,
                   codeOob, optVars, heapVars, symTable, pendingInputAddr, lexer>>

\* Interpreter::removeBreakpoint
RemoveBreakpoint ==
    /\ mode = "idle"
    /\ \E line \in breakpoints : breakpoints' = breakpoints \ {line}
    /\ op' = "removeBreakpoint"
    /\ UNCHANGED <<code, machine, mode, initialLine, callExec, entryState, starts,
                   codeOob, optVars, heapVars, symTable, pendingInputAddr, lexer>>

\* Interpreter::resume, up to the while loop
ResumeCall ==
    /\ mode = "idle"
    /\ op' = "resume" /\ callExec' = 0 /\ entryState' = debugState
    /\ IF debugState = "HALTED" \/ debugState = "ERROR"
       THEN UNCHANGED <<debugState, mode>>
       ELSE debugState' = "RUNNING" /\ mode' = "resume"
    /\ UNCHANGED <<code, breakpoints, P, B, T, H, store, freeListHead, running,
                   errorMessage, output, input, initialLine, starts, codeOob,
                   optVars, heapVars, symTable, pendingInputAddr, lexer>>

\* a resume loop that executes the instruction and tests the breakpoint afterwards
ResumeIterExecFirst ==
    /\ mode = "resume"
    /\ IF running /\ InCode(code, P)
       THEN \E r \in Outcomes(code, M) :
            /\ SetM(IF ~r.stuck /\ r.ret /\ At(code, P).line \in breakpoints
                    THEN [r.m EXCEPT !.debugState = "PAUSED"] ELSE r.m)
            /\ callExec' = Count(callExec)
            /\ mode' = IF r.stuck THEN "stuck"
                       ELSE IF r.ret /\ At(code, P).line \notin breakpoints THEN "resume"
                       ELSE "idle"
       ELSE /\ running' = FALSE
            /\ debugState' = IF running THEN "HALTED" ELSE debugState
            /\ mode' = "idle"
            /\ UNCHANGED <<P, B, T, H, store, freeListHead, errorMessage, output,
                           input, callExec>>
    /\ UNCHANGED <<code, breakpoints, initialLine, op, entryState, starts, codeOob,
                   optVars, symTable, pendingInputAddr, lexer>>

\* Interpreter::resume: one iteration of the while loop, or the code after it
resumeLoop ==
    /\ mode = "resume"
    /\ IF running /\ InCode(code, P)
       THEN IF At(code, P).line \in breakpoints
            THEN /\ debugState' = "PAUSED"
                 /\ mode' = "idle"
                 /\ UNCHANGED <<P, B, T, H, store, freeListHead, running,
                                errorMessage, output, input, callExec>>
            ELSE \E r \in Outcomes(code, M) :
                 /\ SetM(r.m)
                 /\ callExec' = Count(callExec)
                 /\ mode' = IF r.stuck THEN "stuck" ELSE IF r.ret THEN "resume" ELSE "idle"
       ELSE /\ running' = FALSE
            /\ debugState' = IF running THEN "HALTED" ELSE debugState
            /\ mode' = "idle"
            /\ UNCHANGED <<P, B, T, H, store, freeListHead, errorMessage, output,
                           input, callExec>>
    /\ UNCHANGED <<code, breakpoints, initialLine, op, entryState, starts, codeOob,
                   optVars, symTable, pendingInputAddr, lexer>>

\* one iteration of resume's loop where nothing else is observed
ResumeIter ==
    /\ resumeLoop
    /\ UNCHANGED heapVars

\* a step that honours breakpoints: nothing is executed on a breakpoint line
StepChecksBreakpoints ==
    /\ mode = "idle"
    /\ op' = "step" /\ entryState' = debugState
    /\ IF debugState # "HALTED" /\ debugState # "ERROR" /\ running /\ InCode(code, P)
          /\ At(code, P).line \notin breakpoints
       THEN \E r \in Outcomes(code, [M EXCEPT !.debugState = "RUNNING"]) :
            /\ SetM([r.m EXCEPT !.debugState =
                        IF r.m.running /\ ~r.stuck THEN "PAUSED" ELSE r.m.debugState])
            /\ callExec' = 1
            /\ mode' = IF r.stuck THEN "stuck" ELSE "idle"
       ELSE /\ callExec' = 0
            /\ UNCHANGED <<machine, mode>>
    /\ UNCHANGED <<code, breakpoints, initialLine, starts, codeOob, optVars, heapVars, symTable, pendingInputAddr, lexer>>

\* Interpreter::step
Step ==
    /\ mode = "idle"
    /\ op' = "step" /\ entryState' = debugState
    /\ IF debugState # "HALTED" /\ debugState # "ERROR" /\ running /\ InCode(code, P)
       THEN \E r \in Outcomes(code, [M EXCEPT !.debugState = "RUNNING"]) :
            /\ SetM([r.m EXCEPT !.debugState =
                        IF r.m.running /\ ~r.stuck THEN "PAUSED" ELSE r.m.debugState])
            /\ callExec' = 1
            /\ mode' = IF r.stuck THEN "stuck" ELSE "idle"
       ELSE /\ callExec' = 0
            /\ UNCHANGED <<machine, mode>>
    /\ UNCHANGED <<code, breakpoints, initialLine, starts, codeOob, optVars, heapVars, symTable, pendingInputAddr, lexer>>

\* Interpreter::getCurrentLine
getCurrentLine == IF InCode(code, P) THEN At(code, P).line ELSE -1

\* Interpreter::stepOver, up to the while loop
StepOverCall ==
    /\ mode = "idle"
    /\ op' = "stepOver" /\ callExec' = 0 /\ entryState' = debugState
    /\ IF debugState = "HALTED" \/ debugState = "ERROR"
       THEN UNCHANGED <<debugState, mode, initialLine>>
       ELSE /\ initialLine' = getCurrentLine
            /\ debugState' = "RUNNING"
            /\ mode' = "stepOver"
    /\ UNCHANGED <<code, breakpoints, P, B, T, H, store, freeListHead, running,
                   errorMessage, output, input, starts, codeOob, optVars, heapVars, symTable, pendingInputAddr, lexer>>

\* what the read of code_[p].line after executeOne can yield: the line of the
\* instruction, or anything when p lies outside the vector
LineRead(p) ==
    IF InCode(code, p) THEN {At(code, p).line} ELSE {0, initialLine, -1}

\* Interpreter::stepOver: one iteration of the while loop, or the code after it
StepOverIter ==
    /\ mode = "stepOver"
    /\ IF running /\ InCode(code, P)
       THEN \E r \in Outcomes(code, M) :
            /\ callExec' = Count(callExec)
            /\ IF r.stuck
               THEN SetM(r.m) /\ mode' = "stuck" /\ UNCHANGED codeOob
               ELSE \E currentLine \in LineRead(r.m.P) :
                    /\ codeOob' = (codeOob \/ ~InCode(code, r.m.P))
                    /\ IF currentLine # initialLine /\ currentLine # 0
                       THEN /\ SetM([r.m EXCEPT !.debugState =
                                       IF r.m.running THEN "PAUSED" ELSE r.m.debugState])
                            /\ mode' = "idle"
                       ELSE SetM(r.m) /\ mode' = "stepOver"
       ELSE /\ debugState' = IF running THEN "PAUSED" ELSE debugState
            /\ mode' = "idle"
            /\ UNCHANGED <<P, B, T, H, store, freeListHead, running, errorMessage,
                           output, input, callExec, codeOob>>
    /\ UNCHANGED <<code, breakpoints, initialLine, op, entryState, starts,
                   optVars, heapVars, symTable, pendingInputAddr, lexer>>

----------------------------------------------------------------------------
(* Source programs of the model.  Line 1 holds the program header and the   *)
(* variable declaration, line 2 the procedure (when there is one), the      *)
(* statements of the main block follow on the lines the records name.       *)

Num(v) == [k |-> "num", v |-> v]
Id(n) == [k |-> "id", name |-> n]
AddrOf(n) == [k |-> "addr", name |-> n]
Deref(e) == [k |-> "deref", e |-> e]
Bin(o, l, r) == [k |-> "bin", o |-> o, l |-> l, r |-> r]
Rel(o, l, r) == [k |-> "rel", o |-> o, l |-> l, r |-> r]

Assign(n, e, ln) == [k |-> "assign", name |-> n, e |-> e, ln |-> ln]
Write(e, ln) == [k |-> "write", e |-> e, ln |-> ln]
Read(n, ln) == [k |-> "read", name |-> n, ln |-> ln]
Call(ln) == [k |-> "call", ln |-> ln]
New(n, e, ln) == [k |-> "new", name |-> n, e |-> e, ln |-> ln]
Delete(n, ln) == [k |-> "delete", name |-> n, ln |-> ln]
PtrAssign(t, e, ln) == [k |-> "ptrassign", t |-> t, e |-> e, ln |-> ln]
IfThen(c, st, ln) == [k |-> "if", c |-> c, then |-> st, ln |-> ln]
While(c, st, ln) == [k |-> "while", c |-> c, do |-> st, ln |-> ln]

NoProc == [ln |-> 0, endLn |-> 0, body |-> <<>>]

\* program p; var x, p: pointer; begin <main> end
Main(stmts, endLn) ==
    [hasProc |-> FALSE, proc |-> NoProc, main |-> stmts, declLn |-> 1, endLn |-> endLn]

\* program p; var x, p: pointer; procedure f(); begin <body> end; begin <main> end
WithProc(body, stmts, endLn) ==
    [hasProc |-> TRUE, proc |-> [ln |-> 2, endLn |-> 2, body |-> body],
     main |-> stmts, declLn |-> 2, endLn |-> endLn]

\* procedure f(); begin x := x + 1 end; begin x := 1; call f(); write(x) end
SrcCall ==
    WithProc(<<Assign("x", Bin(ADD, Id("x"), Num(1)), 2)>>,
             <<Assign("x", Num(1), 3), Call(4), Write(Id("x"), 5)>>, 6)

\* begin read(x); write(4 / x); write(7) end
SrcDiv == Main(<<Read("x", 3), Write(Bin(DIV, Num(4), Id("x")), 4), Write(Num(7), 5)>>, 6)

\* begin new(p, x); write(1) end           (x is 0: invalid allocation size)
SrcNewZero == Main(<<New("p", Id("x"), 3), Write(Num(1), 4)>>, 5)

\* begin new(p, StoreSize); write(1) end   (the heap cannot grow that far)
SrcNewHuge == Main(<<New("p", Num(StoreSize), 3), Write(Num(1), 4)>>, 5)

\* begin new(p, StoreSize - 8); write(2) end   (the block ends right above the frame)
SrcNewTight == Main(<<New("p", Num(StoreSize - 8), 3), Write(Num(2), 4)>>, 5)

\* begin new(p, StoreSize - 9); x := 1 + &x; write(x) end
SrcAddrOf ==
    Main(<<New("p", Num(StoreSize - 9), 3),
           Assign("x", Bin(ADD, Num(1), AddrOf("x")), 4), Write(Id("x"), 5)>>, 6)

\* begin new(p, 2); delete(p); delete(p); new(p, 5) end
SrcDoubleDelete ==
    Main(<<New("p", Num(2), 3), Delete("p", 4), Delete("p", 4), New("p", Num(5), 5)>>, 6)

\* begin *(&x - 2) := 99; write(1) end     (overwrites the main frame's return address)
SrcClobber ==
    Main(<<PtrAssign(Bin(SUB, AddrOf("x"), Num(2)), Num(99), 3), Write(Num(1), 4)>>, 5)

\* begin x := 2; while x > 0 do x := x - 1; write(x) end
SrcLoop ==
    Main(<<Assign("x", Num(2), 3),
           While(Rel(GTR, Id("x"), Num(0)), Assign("x", Bin(SUB, Id("x"), Num(1)), 4), 4),
           Write(Id("x"), 5)>>, 6)

\* begin new(p, 2); *p := 5; write(*p); delete(p) end
SrcHeap ==
    Main(<<New("p", Num(2), 3), PtrAssign(Id("p"), Num(5), 4),
           Write(Deref(Id("p")), 4), Delete("p", 5)>>, 6)

DebugSources ==
    {SrcCall, SrcDiv, SrcNewZero, SrcNewHuge, SrcNewTight, SrcAddrOf,
     SrcDoubleDelete, SrcClobber, SrcLoop, SrcHeap}

\* what the program finds on standard input
Inputs == {<<>>, <<2>>}

----------------------------------------------------------------------------
(* Specification of the interpreter under a debugging client (main.cpp,     *)
(* debug REPL): the client calls start, resume, step, stepOver and the      *)
(* breakpoint setters in any order, one call at a time.                     *)

NoOpt == prog = <<>> /\ ref = <<>> /\ phase = "none"

NoHeapTrace == live = {} /\ freed = {} /\ trail = <<>>

Init ==
    /\ \E a \in DebugSources, in \in Inputs :
          /\ Constructed(parseBlock(a), in)
          /\ symTable = parseSymbols(a)
    /\ NoOpt
    /\ NoHeapTrace

Next ==
    \/ Start
    \/ SetBreakpoint
    \/ RemoveBreakpoint
    \/ ResumeCall
    \/ ResumeIter
    \/ Step
    \/ StepOverCall
    \/ StepOverIter

Spec == Init /\ [][Next]_vars

----------------------------------------------------------------------------
(* Specification of the compile-and-run pipeline with and without -O        *)
(* (main.cpp, compileFile): the program emitted by the parser is run to     *)
(* completion, then optimize() is applied and the result is run on a fresh  *)
(* interpreter with the same input.                                         *)

\* begin write(1 + 2); x := x + 0; write(x * 1); write(6 / 2) end
SrcFold ==
    Main(<<Write(Bin(ADD, Num(1), Num(2)), 3),
           Assign("x", Bin(ADD, Id("x"), Num(0)), 4),
           Write(Bin(MUL, Id("x"), Num(1)), 5),
           Write(Bin(DIV, Num(6), Num(2)), 5)>>, 6)

\* begin read(x); if 1 = 2 then write(5); write(x) end
SrcIfFalse ==
    Main(<<Read("x", 3), IfThen(Rel(EQL, Num(1), Num(2)), Write(Num(5), 4), 4),
           Write(Id("x"), 5)>>, 6)

OptSources == {SrcCall, SrcDiv, SrcLoop, SrcHeap, SrcFold, SrcIfFalse}

\* Interpreter::run: start(), then resume() up to its while loop
RunCall ==
    /\ mode = "idle"
    /\ starts = 0
    /\ startEffect
    /\ mode' = "resume"
    /\ op' = "run" /\ callExec' = 0 /\ entryState' = debugState
    /\ UNCHANGED <<code, breakpoints, initialLine, codeOob, optVars, heapVars, symTable, pendingInputAddr, lexer>>

\* compileFile with -O: optimizer.optimize(codeGen.getCode()), then a new
\* Interpreter on the result; the finished run of prog is kept in ref
Optimize ==
    /\ phase = "orig"
    /\ mode = "idle"
    /\ starts = 1
    /\ ref' = [ref EXCEPT !.output = output, !.error = (errorMessage # <<>>)]
    /\ phase' = "opt"
    /\ code' = optimize(prog)
    /\ breakpoints' = {}
    /\ P' = 0 /\ B' = 0 /\ T' = 0 /\ H' = 0
    /\ store' = <<>>
    /\ freeListHead' \in {-1, 0}
    /\ running' = FALSE
    /\ debugState' = "HALTED"
    /\ errorMessage' = <<>>
    /\ output' = <<>>
    /\ input' = ref.input
    /\ starts' = 0
    /\ op' = "new" /\ callExec' = 0 /\ entryState' = "HALTED"
    /\ UNCHANGED <<mode, initialLine, codeOob, prog, heapVars, symTable, pendingInputAddr, lexer>>

InitOpt ==
    /\ \E a \in OptSources, in \in Inputs :
          /\ Constructed(parseBlock(a), in)
          /\ prog = parseBlock(a)
          /\ symTable = parseSymbols(a)
          /\ ref = [input |-> in, output |-> <<>>, error |-> FALSE]
    /\ phase = "orig"
    /\ NoHeapTrace

NextOpt ==
    \/ RunCall
    \/ ResumeIter
    \/ Optimize

SpecOpt == InitOpt /\ [][NextOpt]_vars

----------------------------------------------------------------------------
(* Specification of the allocator under a program that executes NEW with a *)
(* positive size and DEL with a pointer value NEW gave it, in the main      *)
(* block (T_ at the top of its frame).  A pointer variable keeps its value  *)
(* after DEL, so the program can pass it to DEL again.                      *)

heap == [store |-> store, H |-> H, freeListHead |-> freeListHead]

SetHeap(h) == store' = h.store /\ H' = h.H /\ freeListHead' = h.freeListHead

\* the outcomes of a heap call r[g]: its effect, and when it indexes the
\* store out of range its effect for every garbage value, or no return
HeapOutcomes(r) ==
    IF r[0].ub
    THEN {[r[g] EXCEPT !.ub = FALSE] : g \in Garbage} \cup {[r[0] EXCEPT !.hang = TRUE]}
    ELSE {r[0]}

\* NEW with size on top of the stack: allocate(size); -1 raises out of memory
HeapAllocate ==
    /\ running
    /\ mode = "idle"
    /\ Len(trail) < MaxHeapOps
    /\ \E size \in 1..MaxAlloc :
         LET call == [g \in Garbage |-> allocate(heap, T, size, g)]
         IN  \E r \in HeapOutcomes(call) :
             IF r.hang
             THEN mode' = "stuck" /\ UNCHANGED <<store, H, freeListHead, running, live,
                                               freed, trail>>
             ELSE /\ SetHeap(r.h)
                  /\ running' = (r.addr # -1)
                  /\ mode' = "idle"
                  /\ live' = IF r.addr # -1 THEN live \cup {r.addr} ELSE live
                  /\ freed' = freed \ {r.addr}
                  /\ trail' = Append(trail, [op |-> "allocate", size |-> size,
                                             addr |-> r.addr, oldH |-> H])
    /\ UNCHANGED <<code, breakpoints, P, B, T, debugState, errorMessage, output,
                   input, initialLine, op, callExec, entryState, starts, codeOob,
                   optVars, symTable, pendingInputAddr, lexer>>

\* DEL with the pointer value address on top of the stack: deallocate(address)
deleteEffect(address) ==
    LET call == [g \in Garbage |-> deallocate(heap, address, g)]
    IN  \E r \in HeapOutcomes(call) :
        IF r.hang
        THEN mode' = "stuck" /\ UNCHANGED <<store, H, freeListHead, live, freed, trail>>
        ELSE /\ SetHeap(r.h)
             /\ mode' = "idle"
             /\ live' = live \ {address}
             /\ freed' = freed \cup {address}
             /\ trail' = Append(trail, [op |-> "deallocate", size |-> store[address - 1],
                                        addr |-> address, oldH |-> H])

\* DEL of a live block
HeapDeallocate ==
    /\ running
    /\ mode = "idle"
    /\ Len(trail) < MaxHeapOps
    /\ \E address \in live : deleteEffect(address)
    /\ UNCHANGED <<code, breakpoints, P, B, T, running, debugState, errorMessage,
                   output, input, initialLine, op, callExec, entryState, starts,
                   codeOob, optVars, symTable, pendingInputAddr, lexer>>

\* DEL of a pointer value that was deleted before and not handed out since
HeapDeallocateAgain ==
    /\ running
    /\ mode = "idle"
    /\ Len(trail) < MaxHeapOps
    /\ \E address \in freed : deleteEffect(address)
    /\ UNCHANGED <<code, breakpoints, P, B, T, running, debugState, errorMessage,
                   output, input, initialLine, op, callExec, entryState, starts,
                   codeOob, optVars, symTable, pendingInputAddr, lexer>>

\* the interpreter after start() and the main block's INT 0,MainDataOffset
InitHeap ==
    /\ code = <<>>
    /\ breakpoints = {}
    /\ P = 2 /\ B = 0 /\ T = MainDataOffset /\ H = StoreSize
    /\ store = [i \in 0..(StoreSize - 1) |-> 0]
    /\ freeListHead = -1
    /\ running = TRUE
    /\ debugState = "RUNNING"
    /\ errorMessage = <<>>
    /\ output = <<>>
    /\ input = <<>>
    /\ mode = "idle"
    /\ initialLine = 0
    /\ op = "run"
    /\ callExec = 0
    /\ entryState = "HALTED"
    /\ starts = 1
    /\ codeOob = FALSE
    /\ NoOpt
    /\ NoHeapTrace
    /\ symTable = SymbolTable
    /\ pendingInputAddr = -1
    /\ lexer = NoLexer

NextHeap ==
    \/ HeapAllocate
    \/ HeapDeallocate
    \/ HeapDeallocateAgain

SpecHeap == InitHeap /\ [][NextHeap]_vars

----------------------------------------------------------------------------
(* The free list as a data structure *)

\* the block addresses met when following the next pointers from curr
RECURSIVE freeChain(_, _, _)
freeChain(s, curr, fuel) ==
    IF curr = -1 \/ fuel = 0 \/ ~In(s, curr) \/ ~In(s, curr + 1) THEN <<>>
    ELSE <<curr>> \o freeChain(s, s[curr + 1], fuel - 1)

\* following the next pointers from curr ends in -1
RECURSIVE chainEnds(_, _, _)
chainEnds(s, curr, fuel) ==
    IF curr = -1 THEN TRUE
    ELSE IF fuel = 0 \/ ~In(s, curr) \/ ~In(s, curr + 1) THEN FALSE
    ELSE chainEnds(s, s[curr + 1], fuel - 1)

FreeBlocks == freeChain(store, freeListHead, StoreSize)

\* some free block covers the words a..b-1
FreeCovers(h, a, b) ==
    LET fl == freeChain(h.store, h.freeListHead, StoreSize)
    IN  \E i \in 1..Len(fl) : fl[i] <= a /\ fl[i] + h.store[fl[i]] >= b

----------------------------------------------------------------------------
(* Specification of programs with a bounds-checked array, run to the end    *)
(* (Interpreter::run).  The index comes from the input, so that every       *)
(* index from -1 to the size and beyond reaches the subscript.              *)

ElemAssign(i, e, ln) == [k |-> "elemassign", index |-> i, e |-> e, ln |-> ln]
ElemWrite(i, ln) == [k |-> "elemwrite", index |-> i, ln |-> ln]
ElemRead(i, ln) == [k |-> "elemread", index |-> i, ln |-> ln]
ElemAddr(n, i, ln) == [k |-> "elemaddr", name |-> n, index |-> i, ln |-> ln]

\* program p; var x, p: pointer, a[n]; begin <main> end
MainArr(n, stmts, endLn) ==
    [hasProc |-> FALSE, proc |-> NoProc, main |-> stmts, declLn |-> 1, endLn |-> endLn,
     arrSize |-> n]

\* begin read(x); <access to a[x]>; write(1) end
SrcArray(n, access) == MainArr(n, <<Read("x", 3), access, Write(Num(1), 5)>>, 6)

\* a[x] := 7,  write(a[x]),  read(a[x]),  p := &a[x]
ArrayAccesses ==
    { ElemAssign(Id("x"), Num(7), 4), ElemWrite(Id("x"), 4), ElemRead(Id("x"), 4),
      ElemAddr("p", Id("x"), 4) }

\* the index, and the number read(a[x]) reads
ArrayInputs == { <<i, 9>> : i \in (-1)..(MaxArr + 1) }

InitArray ==
    /\ \E n \in 1..MaxArr, access \in ArrayAccesses, in \in ArrayInputs :
          /\ Constructed(parseBlock(SrcArray(n, access)), in)
          /\ symTable = parseSymbols(SrcArray(n, access))
          /\ ref = [input |-> in, size |-> n, kind |-> access.k]
    /\ prog = <<>>
    /\ phase = "array"
    /\ NoHeapTrace

NextArray ==
    \/ RunCall
    \/ ResumeIter

SpecArray == InitArray /\ [][NextArray]_vars

----------------------------------------------------------------------------
(* Specification of compileFile without -O (main.cpp): parser.parse() turns *)
(* the source into code, then an Interpreter is built on it and run.        *)

CallG(ln) == [k |-> "call", proc |-> "g", ln |-> ln]

\* program p; var x, p: pointer;
\* procedure f(); procedure g(); begin <gbody> end; begin <fbody> end;
\* begin <main> end
WithNested(gbody, fbody, stmts, endLn) ==
    [hasProc |-> TRUE,
     proc |-> [ln |-> 2, endLn |-> 2, body |-> fbody,
               nested |-> [ln |-> 2, endLn |-> 2, body |-> gbody]],
     main |-> stmts, declLn |-> 2, endLn |-> endLn]

\* g: if x < 1 then call f()   f: x := x + 1; call g()   main: call f(); write(x)
SrcNestedCallsOuter ==
    WithNested(<<IfThen(Rel(LSS, Id("x"), Num(1)), Call(2), 2)>>,
               <<Assign("x", Bin(ADD, Id("x"), Num(1)), 2), CallG(2)>>,
               <<Call(3), Write(Id("x"), 4)>>, 5)

\* g: x := x + 1; if x < 2 then call g()   f: call g()   main: call f(); write(x)
SrcNestedRecursive ==
    WithNested(<<Assign("x", Bin(ADD, Id("x"), Num(1)), 2),
                 IfThen(Rel(LSS, Id("x"), Num(2)), CallG(2), 2)>>,
               <<CallG(2)>>,
               <<Call(3), Write(Id("x"), 4)>>, 5)

\* f: x := x + 1; if x < 2 then call f()   main: call f(); write(x)
SrcRecursive ==
    WithProc(<<Assign("x", Bin(ADD, Id("x"), Num(1)), 2),
               IfThen(Rel(LSS, Id("x"), Num(2)), Call(2), 2)>>,
             <<Call(3), Write(Id("x"), 4)>>, 5)

For(n, from, to, down, st, ln) ==
    [k |-> "for", name |-> n, from |-> from, to |-> to, downto |-> down, do |-> st, ln |-> ln]

IfElse(c, st, alt, ln) == [k |-> "ifelse", c |-> c, then |-> st, else |-> alt, ln |-> ln]

\* begin read(x); if x > 1 then write(1) else write(0); write(x) end
SrcIfElse ==
    Main(<<Read("x", 3),
           IfElse(Rel(GTR, Id("x"), Num(1)), Write(Num(1), 4), Write(Num(0), 4), 4),
           Write(Id("x"), 5)>>, 6)

\* begin for x := 1 to 2 do write(x); write(x) end
SrcFor ==
    Main(<<For("x", Num(1), Num(2), FALSE, Write(Id("x"), 3), 3), Write(Id("x"), 4)>>, 5)

\* begin read(x); for x := x downto 1 do write(x) end
SrcForDownto ==
    Main(<<Read("x", 3), For("x", Id("x"), Num(1), TRUE, Write(Id("x"), 4), 4)>>, 5)

CallWith(args, ln) == [k |-> "call", args |-> args, ln |-> ln]

\* program p; var x, p: pointer, a[n];
\* procedure f(<ps>); begin <body> end; begin <main> end
WithParams(ps, n, body, stmts, endLn) ==
    [hasProc |-> TRUE, proc |-> [ln |-> 2, endLn |-> 2, body |-> body, params |-> ps],
     main |-> stmts, declLn |-> 2, endLn |-> endLn, arrSize |-> n]

\* procedure f(n, m); begin x := n - m end; begin call f(5, 3); write(x) end
SrcParams ==
    WithParams(ParamNames, 0, <<Assign("x", Bin(SUB, Id("n"), Id("m")), 2)>>,
               <<CallWith(<<Num(5), Num(3)>>, 3), Write(Id("x"), 4)>>, 5)

\* var ..., a[1]; procedure f(n); begin a[n] := 7 end; begin call f(0); write(a[0]) end
SrcParamArray ==
    WithParams(<<"n">>, 1, <<ElemAssign(Id("n"), Num(7), 2)>>,
               <<CallWith(<<Num(0)>>, 3), ElemWrite(Num(0), 4)>>, 5)

ParseSources ==
    DebugSources
      \cup {SrcFold, SrcIfFalse, SrcNestedCallsOuter, SrcNestedRecursive, SrcRecursive,
            SrcIfElse, SrcFor, SrcForDownto, SrcParams, SrcParamArray}
      \cup { SrcArray(n, access) : n \in 1..MaxArr, access \in ArrayAccesses }

\* Parser::parse: the whole program is parsed and its code emitted
Parse ==
    /\ phase = "source"
    /\ code' = parseBlock(ref.src)
    /\ symTable' = parseSymbols(ref.src)
    /\ phase' = "parsed"
    /\ UNCHANGED <<machine, breakpoints, mode, initialLine, op, callExec, entryState,
                   starts, codeOob, prog, ref, heapVars, pendingInputAddr, lexer>>

\* Interpreter interp(codeGen.getCode()); interp.run()
RunParsed ==
    /\ phase = "parsed"
    /\ RunCall

InitParse ==
    /\ \E a \in ParseSources, in \in Inputs :
          /\ Constructed(<<>>, in)
          /\ ref = [src |-> a, input |-> in]
    /\ prog = <<>>
    /\ phase = "source"
    /\ NoHeapTrace
    /\ symTable = SymbolTable

\* one iteration of run's loop; trail notes the first of the three slots
\* reserved by the INT 0,3 executed last
RunIter ==
    /\ resumeLoop
    /\ trail' = IF /\ running /\ InCode(code, P) /\ At(code, P).line \notin breakpoints
                   /\ At(code, P).op = "INT" /\ At(code, P).A = 3
                THEN <<[op |-> "INT", slot |-> T + 1]>>
                ELSE trail
    /\ UNCHANGED <<live, freed>>

NextParse ==
    \/ Parse
    \/ RunParsed
    \/ RunIter

SpecParse == InitParse /\ [][NextParse]_vars

----------------------------------------------------------------------------
(* Specification of the symbol table under its client, the parser, which    *)
(* calls enterScope, leaveScope, registerSymbol and lookup in any order.    *)
(* trail keeps the calls made and ref describes the last one.               *)

MaxSymOps == 5          \* calls that change the table, per table

\* the identifiers the client registers and looks up
SymNames == {"x", "f"}

symVars == <<code, breakpoints, machine, mode, initialLine, op, callExec, entryState,
             starts, codeOob, prog, phase, live, freed, pendingInputAddr, lexer>>

EnterScope ==
    /\ phase = "symbols"
    /\ Len(trail) < MaxSymOps
    /\ symTable' = enterScope(symTable)
    /\ trail' = Append(trail, [op |-> "enterScope"])
    /\ ref' = [op |-> "enterScope"]
    /\ UNCHANGED symVars

LeaveScope ==
    /\ phase = "symbols"
    /\ Len(trail) < MaxSymOps
    /\ symTable' = leaveScope(symTable)
    /\ trail' = Append(trail, [op |-> "leaveScope"])
    /\ ref' = [op |-> "leaveScope"]
    /\ UNCHANGED symVars

RegisterSymbol ==
    /\ phase = "symbols"
    /\ Len(trail) < MaxSymOps
    /\ \E name \in SymNames :
          LET r == registerSymbol(symTable, name, "variable", 3)
          IN  /\ symTable' = r.table
              /\ trail' = Append(trail, [op |-> "registerSymbol", name |-> name])
              /\ ref' = [op |-> "registerSymbol", name |-> name, ret |-> r.ret,
                         before |-> symTable]
    /\ UNCHANGED symVars

Lookup ==
    /\ phase = "symbols"
    /\ \E name \in SymNames :
          ref' = [op |-> "lookup", name |-> name, ret |-> lookup(symTable, name)]
    /\ UNCHANGED <<symVars, symTable, trail>>

InitSym ==
    /\ Constructed(<<>>, <<>>)
    /\ prog = <<>>
    /\ ref = [op |-> "new"]
    /\ phase = "symbols"
    /\ NoHeapTrace
    /\ symTable = SymbolTable

NextSym ==
    \/ EnterScope
    \/ LeaveScope
    \/ RegisterSymbol
    \/ Lookup

SpecSym == InitSym /\ [][NextSym]_vars

\* The scopes that are open after the calls of a trail, outermost first, each
\* with the names registered in it and not rejected, oldest first.  The
\* outermost scope is never left.
RECURSIVE openScopes(_)
openScopes(calls) ==
    IF calls = <<>> THEN << <<>> >>
    ELSE LET sc   == openScopes(SubSeq(calls, 1, Len(calls) - 1))
             call == calls[Len(calls)]
             top  == sc[Len(sc)]
         IN  CASE call.op = "enterScope" -> Append(sc, <<>>)
               [] call.op = "leaveScope" ->
                    IF Len(sc) = 1 THEN sc ELSE SubSeq(sc, 1, Len(sc) - 1)
               [] call.op = "registerSymbol" ->
                    IF \E i \in 1..Len(top) : top[i] = call.name
                    THEN sc
                    ELSE [sc EXCEPT ![Len(sc)] = Append(top, call.name)]

\* the names of the open scopes in the order of their registration
RECURSIVE liveNames(_)
liveNames(sc) == IF sc = <<>> THEN <<>> ELSE Head(sc) \o liveNames(Tail(sc))

\* the stack index of the symbol registered last among the live ones of
\* that name, -1 when there is none
innermost(names, name) ==
    IF \E i \in 1..Len(names) : names[i] = name
    THEN (CHOOSE i \in 1..Len(names) :
             /\ names[i] = name
             /\ \A j \in (i + 1)..Len(names) : names[j] # name) - 1
    ELSE -1

----------------------------------------------------------------------------
(* Properties *)

\* a fetch is possible in this state: the loops of resume and stepOver are
\* about to execute code[P], or a step call would
AtFetch ==
    /\ starts >= 1
    /\ running
    /\ InCode(code, P)
    /\ \/ mode = "resume" /\ At(code, P).line \notin breakpoints
       \/ mode = "stepOver"
       \/ mode = "idle" /\ debugState \notin {"HALTED", "ERROR"}

\* C1: the optimized program, run on the same input, writes the same
\* integers as the parser's program and ends the same way (normal halt or
\* runtime error), also when the program declares and calls a procedure.
OptimizedRunEquivalent ==
    (phase = "opt" /\ starts = 1 /\ mode # "resume")
        => /\ mode = "idle"
           /\ output = ref.output
           /\ (errorMessage # <<>>) = ref.error

\* C2: once an instruction has raised a runtime error, the call that executed
\* it (resume, step or stepOver) returns with debug state ERROR and a
\* non-empty message, and no instruction is executed afterwards.
RuntimeErrorEndsInErrorState ==
    [][ /\ (starts' = 1 /\ ~running' /\ errorMessage' # <<>> /\ mode' = "idle"
              /\ op' \in {"resume", "step", "stepOver"})
           => debugState' = "ERROR"
        /\ (starts' = starts /\ ~running /\ errorMessage # <<>>)
           => UNCHANGED <<P, B, T, H, store, output, input>> ]_vars

\* C3: at every instruction fetch 0 <= T < H <= storeSize and B >= 0.
FetchInvariant ==
    AtFetch => (0 <= T /\ T < H /\ H <= StoreSize /\ B >= 0)

\* C4: whatever NEW and DEL instructions a program has executed (the same
\* pointer may be deleted twice), the free list is a finite chain ending in
\* -1, strictly ascending, of non-overlapping blocks inside [H, storeSize).
FreeListWellFormed ==
    (starts >= 1) =>
        LET fl == FreeBlocks
        IN  /\ mode # "stuck"
            /\ chainEnds(store, freeListHead, StoreSize)
            /\ \A i \in 1..Len(fl) :
                  fl[i] >= H /\ fl[i] + store[fl[i]] <= StoreSize
            /\ \A i \in 1..(Len(fl) - 1) :
                  fl[i] < fl[i + 1] /\ fl[i] + store[fl[i]] <= fl[i + 1]

\* C5: after every deallocate, and after every allocate that splits a free
\* block, no two blocks of the free list are adjacent (for consecutive free
\* blocks p < q, p + store[p] < q), and after a deallocate one free block
\* holds the freed words together with the neighbours they touched.
NoAdjacentFreeBlocks ==
    LET fl == FreeBlocks
    IN  /\ chainEnds(store, freeListHead, StoreSize)
        /\ \A i \in 1..(Len(fl) - 1) : fl[i] + store[fl[i]] < fl[i + 1]
        /\ (trail # <<>> /\ trail[Len(trail)].op = "deallocate")
              => FreeCovers(heap, trail[Len(trail)].addr - 1,
                            trail[Len(trail)].addr + trail[Len(trail)].size)

\* allocate(n), deallocate of the address it returned, and allocate(n) again,
\* from the current heap; every call returns and stays inside the store
RoundTrip(n) ==
    LET r == allocate(heap, T, n, 0)
    IN  (~r.hang /\ r.addr # -1) =>
            LET d  == deallocate(r.h, r.addr, 0)
                r2 == allocate(d.h, T, n, 0)
            IN  /\ ~r.ub /\ ~d.ub /\ ~r2.ub
                /\ ~d.hang /\ ~r2.hang
                /\ FreeCovers(d.h, r.addr - 1, r.addr + n)
                /\ r2.addr # -1
                /\ r2.h.H = d.h.H

\* C6: from every heap state, after allocate(n) = addr and deallocate(addr) a
\* free block of at least n+1 words covers the header word addr-1 and the n
\* data words, and an immediately following allocate(n) succeeds without
\* lowering H.
AllocateFreeAllocate ==
    (running /\ mode = "idle") => \A n \in 1..(MaxAlloc + 1) : RoundTrip(n)

\* C7: an iteration of the resume loop that finds the line of code[P] in the
\* breakpoint set returns with state PAUSED and leaves P, B, T, H and the
\* store as they were.
BreakpointTestedBeforeExecution ==
    [][ (mode = "resume" /\ running /\ InCode(code, P)
            /\ At(code, P).line \in breakpoints)
        => /\ UNCHANGED <<P, B, T, H, store>>
           /\ debugState' = "PAUSED"
           /\ mode' = "idle" ]_vars

\* resume executed instructions and then stopped in front of a breakpoint line
PausedAtBreakpoint ==
    /\ mode = "idle" /\ op = "resume"
    /\ callExec >= 1
    /\ debugState = "PAUSED"
    /\ running /\ InCode(code, P)
    /\ At(code, P).line \in breakpoints

\* C8: a resume call made while paused executes at least one instruction.
ResumeFromPauseProgresses ==
    (mode = "idle" /\ op = "resume" /\ entryState = "PAUSED") => callExec >= 1

\* C9: step called in state PAUSED with P inside the code executes code[P]
\* once, whatever the breakpoints, and leaves the state PAUSED unless the
\* instruction ended the program or raised an error.
StepExecutesOneInstruction ==
    [][ (mode = "idle" /\ op' = "step" /\ debugState = "PAUSED" /\ InCode(code, P))
        => /\ callExec' = 1
           /\ \E r \in Outcomes(code, [M EXCEPT !.debugState = "RUNNING"]) :
                 /\ <<P', B', T', H', store', freeListHead'>>
                      = <<r.m.P, r.m.B, r.m.T, r.m.H, r.m.store, r.m.freeListHead>>
                 /\ <<running', errorMessage', output', input'>>
                      = <<r.m.running, r.m.errorMessage, r.m.output, r.m.input>>
                 /\ (mode' = "stuck") = r.stuck
           /\ (running' /\ mode' = "idle") => debugState' = "PAUSED" ]_vars

\* step was called while paused with breakpoints set, and left the state PAUSED
SteppedWhilePaused ==
    /\ mode = "idle" /\ op = "step"
    /\ entryState = "PAUSED"
    /\ callExec = 1
    /\ debugState = "PAUSED"
    /\ breakpoints # {}

\* C10: stepOver called while paused on line s returns, when the program is
\* still running, in state PAUSED in front of an instruction whose line is
\* neither s nor 0, and never reads code outside [0, code.length).
StepOverStopsAtNextLine ==
    /\ ~codeOob
    /\ (mode = "idle" /\ op = "stepOver" /\ entryState = "PAUSED" /\ running)
          => /\ debugState = "PAUSED"
             /\ InCode(code, P) => At(code, P).line \notin {initialLine, 0}

\* C11: start called on a halted interpreter sets P = 0, B = 0, T = 0,
\* H = storeSize and an empty free list, executes no instruction and leaves
\* the debug state PAUSED.
StartLeavesPaused ==
    (mode = "idle" /\ op = "start" /\ entryState = "HALTED")
        => /\ P = 0 /\ B = 0 /\ T = 0 /\ H = StoreSize /\ freeListHead = -1
           /\ callExec = 0
           /\ debugState = "PAUSED"

\* the next instruction reads or writes the store through an address taken
\* from the stack, and that address
IndirectAccess ==
    /\ running /\ InCode(code, P)
    /\ At(code, P).op \in {"LOD", "STO", "RED"}
    /\ At(code, P).A = 0

IndirectAddress == IF At(code, P).op = "STO" THEN store[T - 1] ELSE store[T]

\* C12: a subscripted access a[i] to an array of size n with i < 0 or i >= n
\* ends in the division-by-zero error before the store is read or written
\* through the element address; with 0 <= i < n the address used is
\* descriptor word 0 plus i and no error is raised.
ArrayAccessBoundsChecked ==
    LET i    == ref.input[1]
        n    == ref.size
        elem == store[Sym("a").address] + i
    IN  /\ IndirectAccess => (0 <= i /\ i < n /\ IndirectAddress = elem)
        /\ (starts = 1 /\ mode = "idle" /\ ~running) =>
              IF 0 <= i /\ i < n
              THEN /\ errorMessage = <<>>
                   /\ debugState = "HALTED"
                   /\ ref.kind = "elemassign" => store[elem] = 7 /\ output = <<1>>
                   /\ ref.kind = "elemwrite" => output = <<0, 1>>
                   /\ ref.kind = "elemread" => store[elem] = 9 /\ output = <<1>>
                   /\ ref.kind = "elemaddr" => store[Sym("p").address] = elem /\ output = <<1>>
              ELSE /\ errorMessage # <<>>
                   /\ errorMessage[1] = "division by zero"
                   /\ output = <<>>
                   /\ \A w \in (H + 1)..(StoreSize - 1) : store[w] = 0

\* a[n] := 7 on an array of size n ended in the error
ArrayIndexRejected ==
    /\ phase = "array"
    /\ starts = 1 /\ mode = "idle" /\ ~running
    /\ ref.kind = "elemassign"
    /\ ref.input[1] = ref.size
    /\ errorMessage # <<>>

\* the procedures source a declares
declaredProcs(a) ==
    IF ~a.hasProc THEN {}
    ELSE IF "nested" \in DOMAIN a.proc THEN {"f", "g"} ELSE {"f"}

\* C13: after a successful parse every CAL L,a targets the final recorded
\* entry address of a procedure of the program (the one it names), whether
\* the call stands in the enclosing block, in the procedure's own body or in
\* a procedure nested inside it.
CallTargetsAreEntryAddresses ==
    phase = "parsed"
        => \A i \in 1..Len(code) :
              code[i].op = "CAL"
                  => \E name \in declaredProcs(ref.src) :
                        code[i].A = finalAddress(ref.src, name)

\* C14: after a successful parse every JMP and JPC carries a backpatched
\* target inside the code, 0 <= A < Len(code), and no placeholder 0 is left
\* (address 0 holds the program's entry jump, which nothing jumps to).
JumpTargetsInRange ==
    phase = "parsed"
        => \A i \in 1..Len(code) :
              IsJump(code[i]) => code[i].A > 0 /\ code[i].A < Len(code)

\* a parsed for loop: the exit JPC targets the instruction after the JMP
\* that closes the loop
ForLoopParsed ==
    /\ phase = "parsed"
    /\ \E i, j \in 1..Len(code) :
          /\ code[i].op = "JPC" /\ code[j].op = "JMP"
          /\ i < j /\ code[j].A < i - 1
          /\ code[i].A = j
          /\ code[j - 1].op = "STO" /\ code[j - 2].op = "OPR"

\* the address of the INT that opens the block of the given level in the
\* parsed program: the main block (1), f (2), g (3)
blockEntry(level) ==
    CASE level = 1 -> At(code, 0).A
      [] level = 2 -> finalAddress(ref.src, "f")
      [] level = 3 -> finalAddress(ref.src, "g")

\* the level of the block that holds the instruction at address i
blockLevel(i) ==
    IF i >= At(code, 0).A \/ i = 0 THEN 1
    ELSE IF "nested" \in DOMAIN ref.src.proc /\ i >= 2 /\ i < blockEntry(2) THEN 3
    ELSE 2

\* the words of the frame set aside by the INT of the block
reserved(level) == At(code, blockEntry(level)).A

\* what the block of the given level keeps in its frame, each with the
\* offsets it occupies: variables and pointers one word, an array descriptor
\* two (address and size), a parameter one, the bounds-check temp one
frameSlots(level) ==
    IF level = 1
    THEN LET size == IF "arrSize" \in DOMAIN ref.src THEN ref.src.arrSize ELSE 0
             syms == parseVarDecl(VarDecls(size), savedDataOffset).symbols
         IN  { [name |-> syms[i].name,
                words |-> IF syms[i].kind = "array"
                          THEN {syms[i].address, syms[i].address + 1}
                          ELSE {syms[i].address}] : i \in 1..Len(syms) }
               \cup {[name |-> "temp", words |-> {MainTempOffset}]}
    ELSE IF level = 2
    THEN LET ps == params(ref.src.proc)
         IN  { [name |-> ps[i], words |-> {Sym(ps[i]).address}] : i \in 1..Len(ps) }
               \cup {[name |-> "temp", words |-> {3 + Len(ps)}]}
    ELSE {[name |-> "temp", words |-> {3}]}

\* the blocks of the parsed program
blockLevels ==
    IF ~ref.src.hasProc THEN {1}
    ELSE IF "nested" \in DOMAIN ref.src.proc THEN {1, 2, 3} ELSE {1, 2}

\* C15: every variable, pointer, parameter, array descriptor and
\* bounds-check temp of a block has frame offsets >= 3 that overlap no other
\* slot of the frame, and every STO and LOD with A # 0 addresses an offset
\* >= 3 below the amount reserved by the INT of the block whose frame it
\* addresses.
FrameOffsetsDisjointAndReserved ==
    phase = "parsed"
        => /\ \A level \in blockLevels :
                /\ \A s \in frameSlots(level) :
                      \A w \in s.words : w >= 3 /\ w < reserved(level)
                /\ \A s, t \in frameSlots(level) :
                      s # t => s.words \cap t.words = {}
           /\ \A i \in 1..Len(code) :
                 (code[i].op \in {"STO", "LOD"} /\ code[i].A # 0)
                     => /\ code[i].A >= 3
                        /\ code[i].A < reserved(blockLevel(i - 1) - code[i].L)

\* a parsed program with an array and a procedure with a parameter whose
\* body subscripts the array, storing the index in the procedure's temp
ParsedParamsAndArray ==
    /\ phase = "parsed"
    /\ "arrSize" \in DOMAIN ref.src /\ ref.src.arrSize > 0
    /\ params(ref.src.proc) # <<>>
    /\ \E i \in 1..Len(code) :
          /\ blockLevel(i - 1) = 2
          /\ code[i] = Instruction("STO", 0, 3 + Len(params(ref.src.proc)), 2)
    /\ \E i \in 1..Len(code) :
          code[i].op = "STO" /\ blockLevel(i - 1) = 1 /\ code[i].A = reserved(1) - 1

\* C16: registerSymbol returns -1, leaving the symbol stack, the history and
\* the hash map as they were, exactly when a live symbol of that name was
\* registered in the scope that is open; otherwise it succeeds, the new
\* symbol is on top of the stack with level currentLevel_ and lookup finds
\* it, also when the name is visible from an enclosing scope.
RegisterRejectsOnlyDuplicates ==
    (phase = "symbols" /\ ref.op = "registerSymbol")
        => LET sc   == openScopes(SubSeq(trail, 1, Len(trail) - 1))
               top  == sc[Len(sc)]
               dup  == \E i \in 1..Len(top) : top[i] = ref.name
           IN  /\ (ref.ret = -1) <=> dup
               /\ ref.ret = -1 => symTable = ref.before
               /\ ref.ret # -1 =>
                     /\ ref.ret = Len(ref.before.symbolStack_)
                     /\ Len(symTable.symbolStack_) = ref.ret + 1
                     /\ Len(symTable.allSymbols_) = Len(ref.before.allSymbols_) + 1
                     /\ getSymbol(symTable, ref.ret).name = ref.name
                     /\ getSymbol(symTable, ref.ret).level = symTable.currentLevel_
                     /\ lookup(symTable, ref.name) = ref.ret

\* a name visible from an enclosing scope has been registered again in an
\* inner scope
ShadowingRegistered ==
    /\ phase = "symbols" /\ ref.op = "registerSymbol"
    /\ ref.ret >= 0
    /\ lookup(ref.before, ref.name) >= 0
    /\ getSymbol(ref.before, lookup(ref.before, ref.name)).level < symTable.currentLevel_

\* C17: after any sequence of enterScope, leaveScope and registerSymbol,
\* lookup(name) returns the stack index of the symbol of that name
\* registered last among those whose scope is still open, or -1 when there
\* is none.
LookupFindsInnermost ==
    phase = "symbols"
        => /\ \A name \in SymNames :
                 lookup(symTable, name) = innermost(liveNames(openScopes(trail)), name)
           /\ ref.op = "lookup"
                 => ref.ret = innermost(liveNames(openScopes(trail)), ref.name)

\* lookup has returned the inner of two live symbols of one name
LookupChoseInner ==
    /\ phase = "symbols" /\ ref.op = "lookup"
    /\ ref.ret >= 1
    /\ \E i \in 1..ref.ret : symTable.symbolStack_[i].name = ref.name

\* the nesting depth of the block that declares a name, the main block
\* being depth 0: x, p, a and f are declared in the main block, the
\* parameters n, m and the procedure g in f
nestingDepth(name) == IF name \in {"x", "p", "a", "f"} THEN 0 ELSE 1

\* C18: every symbol's level is the nesting depth of the block that declares
\* it, the main block having depth 0: declarations of the main block are
\* level 0, symbols of a procedure declared in the main block level 1.
SymbolLevelsAreNestingDepths ==
    phase = "parsed"
        => \A i \in 1..Len(symTable.allSymbols_) :
              symTable.allSymbols_[i].level = nestingDepth(symTable.allSymbols_[i].name)

\* the step about to be taken executes the instruction at P: an iteration
\* of resume's loop past the breakpoint test, or a call of step
Executes ==
    /\ running /\ InCode(code, P)
    /\ \/ mode = "resume" /\ At(code, P).line \notin breakpoints
       \/ mode = "idle" /\ op' = "step" /\ debugState \notin {"HALTED", "ERROR"}

\* C19: OPR RET sets T = B - 1, P = store[B + 2] and B = store[B + 1]; when
\* B was 0 the program terminates normally: no error is recorded, the debug
\* state is HALTED, and no instruction executes any more in this run.
ReturnRestoresCaller ==
    [][ /\ (Executes /\ At(code, P) = Instruction("OPR", 0, RET, At(code, P).line))
            => /\ T' = B - 1
               /\ P' = store[B + 2]
               /\ B' = store[B + 1]
               /\ store' = store /\ output' = output
               /\ B = 0 => /\ ~running'
                           /\ errorMessage' = errorMessage
                           /\ debugState' = "HALTED"
                           /\ mode' = "idle"
               /\ B # 0 => running' /\ mode' # "stuck"
        /\ (~running /\ starts' = starts)
            => UNCHANGED <<P, B, T, H, store, output, input, errorMessage, running>>
      ]_vars

\* the main block has returned: the program ended without an error
MainReturned ==
    /\ starts >= 1 /\ ~running
    /\ B = 0 /\ T = -1 /\ P = store[2]
    /\ errorMessage = <<>>
    /\ debugState = "HALTED"
    /\ output # <<>>

\* the iteration of run's loop about to be taken executes a CAL
ExecutesCall ==
    /\ phase = "parsed" /\ mode = "resume"
    /\ running /\ InCode(code, P)
    /\ At(code, P).line \notin breakpoints
    /\ At(code, P).op = "CAL"

\* the machine a CAL leaves when the count on top of the stack exceeds what
\* the stack holds
underflowingCall ==
    executeOne(code, [M EXCEPT !.store = Put(store, T, T)], 0).m

\* C20: after the parser's call sequence INT 0,3; arguments; LIT argCount,
\* CAL L,a pops the count, takes newBase = T - paramCount - 2, which is the
\* first of the three slots INT 0,3 reserved, writes the static link
\* base(L, B), the dynamic link B and the return address (the instruction
\* after the CAL) to newBase .. newBase + 2, leaves argument i at
\* newBase + 3 + i, and sets B = newBase and P = a; a negative newBase
\* raises a stack underflow error instead.
CallBuildsFrame ==
    [][ ExecutesCall
        => LET instr      == At(code, P)
               paramCount == store[T]
               newBase    == (T - 1) - paramCount - 2
           IN  /\ At(code, P - 1) = Instruction("LIT", 0, paramCount, instr.line)
               /\ trail # <<>> /\ newBase = trail[1].slot
               /\ newBase >= 0
               /\ B' = newBase /\ P' = instr.A /\ T' = newBase + 2 + paramCount
               /\ store'[newBase] = base(store, instr.L, B, 0)
               /\ store'[newBase + 1] = B
               /\ store'[newBase + 2] = P + 1
               /\ \A a \in DOMAIN store :
                     a \notin newBase..(newBase + 2) => store'[a] = store[a]
               /\ \A i \in 0..(paramCount - 1) :
                     At(code, P - 1 - paramCount + i).op = "LIT"
                         => store'[newBase + 3 + i] = At(code, P - 1 - paramCount + i).A
               /\ running' /\ errorMessage' = errorMessage
               /\ ~underflowingCall.running
               /\ underflowingCall.errorMessage # <<>>
               /\ underflowingCall.errorMessage[1] = "stack underflow during call"
               /\ underflowingCall.B = B
      ]_vars

\* call f(5, 3) has been executed: the frame of f starts at the first slot
\* INT 0,3 reserved and holds the links, the return address and both
\* arguments
CalledWithArguments ==
    /\ phase = "parsed" /\ mode = "resume" /\ running
    /\ ref.src = SrcParams
    /\ P = finalAddress(ref.src, "f")
    /\ trail # <<>> /\ B = trail[1].slot /\ B > 0
    /\ store[B] = 0 /\ store[B + 1] = 0
    /\ At(code, store[B + 2] - 1).op = "CAL"
    /\ store[B + 3] = 5 /\ store[B + 4] = 3
    /\ T = B + 4

----------------------------------------------------------------------------
(* Specification of the interpreter with interactive input: the variant of  *)
(* Interpreter the graphical client (gui/MainWindow.cpp) is written         *)
(* against.  The client installs an output callback only, so a RED in debug *)
(* mode parks the machine until the console hands a value to provideInput.  *)
(* The client calls stepOver, resume and start only when                    *)
(* isWaitingForInput() is false.                                            *)

\* the address a RED writes to, with the static link never followed
redTargetNoBase(m, instr, g) ==
    IF instr.A = 0 THEN Get(m.store, m.T, g) ELSE m.B + instr.A

\* the address RED stores the value at: the popped word when A is 0, else
\* base(L, B) + A
redTarget(m, instr, g) ==
    IF instr.A = 0 THEN Get(m.store, m.T, g)
    ELSE base(m.store, instr.L, m.B, g) + instr.A

\* the instruction the machine is about to execute is a RED
parksAtRED == running /\ InCode(code, P) /\ At(code, P).op = "RED"

\* RED in debug mode without input callback: the target address is stashed,
\* the PC is rewound to the RED and the call returns
parkAtRED ==
    /\ debugState' = "WAITING_INPUT"
    /\ pendingInputAddr' = redTarget(M, At(code, P), 0)
    /\ T' = IF At(code, P).A = 0 THEN T - 1 ELSE T
    /\ mode' = "idle"
    /\ UNCHANGED <<P, B, H, store, freeListHead, running, errorMessage, output, input>>

\* the values the console hands over
InputValues == {0, 1, 7}

\* Interpreter::provideInput
ProvideInput ==
    /\ mode = "idle"
    /\ debugState = "WAITING_INPUT"
    /\ \E v \in InputValues : store' = Put(store, pendingInputAddr, v)
    /\ P' = P + 1
    /\ debugState' = "PAUSED"
    /\ pendingInputAddr' = -1
    /\ op' = "provideInput" /\ callExec' = 0 /\ entryState' = debugState
    /\ UNCHANGED <<code, breakpoints, B, T, H, freeListHead, running, errorMessage,
                   output, input, mode, initialLine, starts, codeOob, optVars,
                   heapVars, symTable, lexer>>

\* MainWindow::startDebug: start on an interpreter that does not wait for input
StartInput == debugState # "WAITING_INPUT" /\ Start

\* MainWindow::continueDebug up to the loop of resume
ResumeInputCall == debugState # "WAITING_INPUT" /\ ResumeCall

\* one iteration of the loop of resume with interactive input
ResumeInputIter ==
    /\ mode = "resume"
    /\ IF parksAtRED /\ At(code, P).line \notin breakpoints
       THEN /\ parkAtRED
            /\ callExec' = Count(callExec)
            /\ UNCHANGED <<code, breakpoints, initialLine, op, entryState, starts,
                           codeOob, optVars, heapVars, symTable, lexer>>
       ELSE ResumeIter

\* Interpreter::step with interactive input
StepInput ==
    /\ mode = "idle"
    /\ debugState # "WAITING_INPUT"
    /\ IF parksAtRED /\ debugState # "HALTED" /\ debugState # "ERROR"
       THEN /\ parkAtRED
            /\ op' = "step" /\ entryState' = debugState /\ callExec' = 1
            /\ UNCHANGED <<code, breakpoints, initialLine, starts, codeOob, optVars,
                           heapVars, symTable, lexer>>
       ELSE Step

\* begin call f(); write(x) end, with procedure f(); begin read(x) end
SrcReadInProc == WithProc(<<Read("x", 2)>>, <<Call(3), Write(Id("x"), 4)>>, 5)

\* var a[2]; begin read(x); read(a[x]); write(a[x]) end
SrcReadElem ==
    MainArr(2, <<Read("x", 3), ElemRead(Id("x"), 4), ElemWrite(Id("x"), 5)>>, 6)

InputSources == {SrcDiv, SrcReadInProc, SrcReadElem}

InitInput ==
    /\ \E a \in InputSources :
          /\ Constructed(parseBlock(a), <<>>)
          /\ symTable = parseSymbols(a)
    /\ NoOpt
    /\ NoHeapTrace

NextInput ==
    \/ StartInput
    \/ SetBreakpoint
    \/ RemoveBreakpoint
    \/ ResumeInputCall
    \/ ResumeInputIter
    \/ StepInput
    \/ ProvideInput

SpecInput == InitInput /\ [][NextInput]_vars

\* an instruction is executed by the step taken
ExecutesInput ==
    /\ running /\ InCode(code, P)
    /\ \/ mode = "resume" /\ At(code, P).line \notin breakpoints
       \/ mode = "idle" /\ op' = "step" /\ debugState \notin {"HALTED", "ERROR"}

----------------------------------------------------------------------------
(* Specification of the optimizer as a function on instruction vectors:     *)
(* Optimizer::optimize is applied to a sequence P, and once more to its own *)
(* result.  P ranges over the sequences of at most MaxCode instructions     *)
(* whose jumps have targets inside P.                                       *)

MaxCode == 4

\* the instructions of a sequence of n instructions
Alphabet(n) ==
    { Instruction("LIT", 0, 0, 1), Instruction("LIT", 0, 1, 1),
      Instruction("OPR", 0, ADD, 1), Instruction("OPR", 0, RET, 1),
      Instruction("WRT", 0, 0, 1) }
      \cup { Instruction(o, 0, t, 1) : o \in {"JMP", "JPC"}, t \in 0..(n - 1) }

Programs == UNION { [1..n -> Alphabet(n)] : n \in 1..MaxCode }

\* optimizer.optimize(P)
OptimizeOnce ==
    /\ phase = "pcode"
    /\ code' = optimize(code)
    /\ ref' = code
    /\ phase' = "once"
    /\ UNCHANGED <<machine, breakpoints, mode, initialLine, op, callExec, entryState,
                   starts, codeOob, prog, heapVars, symTable, pendingInputAddr, lexer>>

\* optimizer.optimize(optimize(P))
OptimizeAgain ==
    /\ phase = "once"
    /\ code' = optimize(code)
    /\ ref' = code
    /\ phase' = "twice"
    /\ UNCHANGED <<machine, breakpoints, mode, initialLine, op, callExec, entryState,
                   starts, codeOob, prog, heapVars, symTable, pendingInputAddr, lexer>>

InitPcode ==
    /\ \E p \in Programs : Constructed(p, <<>>) /\ prog = p
    /\ ref = <<>>
    /\ phase = "pcode"
    /\ NoHeapTrace
    /\ symTable = SymbolTable

NextPcode == OptimizeOnce \/ OptimizeAgain

SpecPcode == InitPcode /\ [][NextPcode]_vars

\* an instruction sequence as (op, L, A) triples
triples(c) == [i \in 1..Len(c) |-> <<c[i].op, c[i].L, c[i].A>>]

\* C22: optimize(optimize(P)) equals optimize(P) as a sequence of (op, L, A)
\* triples, for every instruction sequence P.
OptimizeIdempotent ==
    phase = "twice" => triples(code) = triples(ref)

\* C23: the output of the optimizer has at most as many instructions as its
\* input, for every instruction sequence P.
OptimizeNeverGrows ==
    /\ phase = "once" => Len(code) <= Len(prog)
    /\ phase = "twice" => Len(code) <= Len(ref)

\* the optimizer folded, reduced or dropped something
OptimizeShrank ==
    /\ phase = "once"
    /\ Len(code) < Len(prog)
    /\ \E i \in 1..Len(prog) : prog[i].op = "JPC"

\* ---------------------------------------------------------------------------
\* Lexer and SourceManager: token positions (C24, C25)
\*
\* A source text is a sequence of bytes, a byte is named by a string. The
\* bytes "C3" and "A9" are the UTF-8 encoding of one two-byte character.
\* Sources are shorter than one buffer (BUFFER_SIZE) and hold no NUL byte, so
\* forward_ is a byte offset into source_ and the sentinel is met at its end.
\* ---------------------------------------------------------------------------

\* Lexer::SENTINEL, what peek() returns at the end of the source
SENTINEL == "NUL"

Alpha == {"a"}
Digit == {"1"}
Whitespace == {" ", "\t", "\r", "\n"}
\* bytes with the top bit set: lead bytes of 2, 3, 4 byte sequences and continuation bytes
Lead2 == {"C3"}
Lead3 == {"E4"}
Lead4 == {"F0"}
Continuation == {"A9"}
HighBytes == Lead2 \cup Lead3 \cup Lead4 \cup Continuation

\* pl0::utf8CharLen
utf8CharLen(c) ==
    IF c \in Lead2 THEN 2
    ELSE IF c \in Lead3 THEN 3
    ELSE IF c \in Lead4 THEN 4
    ELSE 1

\* pl0::utf8StringLen, counting from byte i (1-based)
RECURSIVE utf8StringLenFrom(_, _)
utf8StringLenFrom(s, i) ==
    IF i > Len(s) THEN 0 ELSE 1 + utf8StringLenFrom(s, i + utf8CharLen(s[i]))

utf8StringLen(s) == utf8StringLenFrom(s, 1)

\* SourceManager::splitLines: one line per std::getline that succeeds, a
\* trailing "\r" removed from each
RECURSIVE getlines(_, _)
getlines(s, line) ==
    IF s = <<>> THEN (IF line = <<>> THEN <<>> ELSE <<line>>)
    ELSE IF Head(s) = "\n" THEN <<line>> \o getlines(Tail(s), <<>>)
    ELSE getlines(Tail(s), Append(line, Head(s)))

stripCR(line) ==
    IF line # <<>> /\ line[Len(line)] = "\r" THEN SubSeq(line, 1, Len(line) - 1) ELSE line

splitLines(source) ==
    LET read == getlines(source, <<>>)
        lines == [i \in 1..Len(read) |-> stripCR(read[i])]
    IN  IF source # <<>> /\ source[Len(source)] # "\n" /\ lines = <<>>
        THEN <<source>>
        ELSE lines

\* SourceManager::getLineCount
getLineCount(source) == Len(splitLines(source))

\* Token::Token(type, literal, line, column, length)
Token(t, lit, ln, col, len) ==
    [type |-> t, literal |-> lit, value |-> 0, line |-> ln, column |-> col, length |-> len]

\* Lexer::Lexer / Lexer::reset over a source; highAlnum is what std::isalnum
\* and std::isalpha answer for a char with the top bit set (a negative
\* argument, which the C library leaves undefined); tokens are the tokens
\* returned so far, diag the errors reported to the DiagnosticsEngine
Lexer(source, hi) ==
    [source_ |-> source, forward_ |-> 0, lexemeBegin_ |-> 0,
     line_ |-> 1, column_ |-> 1, tokenStartLine_ |-> 1, tokenStartColumn_ |-> 1,
     highAlnum |-> hi, tokens |-> <<>>, diag |-> <<>>]

\* Lexer::peek
peek(lx) ==
    IF lx.forward_ < Len(lx.source_) THEN lx.source_[lx.forward_ + 1] ELSE SENTINEL

\* Lexer::peekNext
peekNext(lx) ==
    IF lx.forward_ + 1 < Len(lx.source_) THEN lx.source_[lx.forward_ + 2] ELSE SENTINEL

\* Lexer::isAtEnd
isAtEnd(lx) == peek(lx) = SENTINEL

\* Lexer::advance: one byte forward, line_ and column_ follow
advance(lx) ==
    IF isAtEnd(lx) THEN lx
    ELSE IF peek(lx) = "\n"
         THEN [lx EXCEPT !.forward_ = @ + 1, !.line_ = @ + 1, !.column_ = 1]
         ELSE [lx EXCEPT !.forward_ = @ + 1, !.column_ = @ + 1]

\* Lexer::markLexemeStart
markLexemeStart(lx) ==
    [lx EXCEPT !.lexemeBegin_ = lx.forward_,
               !.tokenStartLine_ = lx.line_,
               !.tokenStartColumn_ = lx.column_]

\* Lexer::getLexeme
getLexeme(lx) == SubSeq(lx.source_, lx.lexemeBegin_ + 1, lx.forward_)

\* DiagnosticsEngine::error as the lexer calls it
error(lx, msg, ln, col, len) == [lx EXCEPT !.diag = Append(@, <<msg, ln, col, len>>)]

\* std::isalpha, std::isdigit, std::isalnum, std::isspace on a char
isalpha(lx, c) == c \in Alpha \/ (c \in HighBytes /\ lx.highAlnum)
isdigit(c) == c \in Digit
isalnum(lx, c) == isalpha(lx, c) \/ isdigit(c)
isspace(c) == c \in Whitespace \cup {"\f"}

\* Lexer::isValidPunctStart
isValidPunctStart(c) ==
    c \in {"+", "-", "*", "/", "=", "<", ">", ":", "(", ")", "[", "]", ",", ";", ".", "&"}

\* Lexer::skipWhitespace
RECURSIVE skipWhitespace(_)
skipWhitespace(lx) ==
    IF ~isAtEnd(lx) /\ peek(lx) \in Whitespace THEN skipWhitespace(advance(lx)) ELSE lx

\* Lexer::skipLineComment: the loop after the two slashes, then the whole
RECURSIVE lineCommentRest(_)
lineCommentRest(lx) ==
    IF ~isAtEnd(lx) /\ peek(lx) # "\n" THEN lineCommentRest(advance(lx)) ELSE lx

skipLineComment(lx) == lineCommentRest(advance(advance(lx)))

\* Lexer::skipBlockComment: the loop after the opening, then the whole
RECURSIVE blockCommentRest(_, _, _)
blockCommentRest(lx, startLine, startCol) ==
    IF isAtEnd(lx) THEN error(lx, "unclosed block comment", startLine, startCol, 2)
    ELSE IF peek(lx) = "*" /\ peekNext(lx) = "/" THEN advance(advance(lx))
    ELSE blockCommentRest(advance(lx), startLine, startCol)

skipBlockComment(lx) == blockCommentRest(advance(advance(lx)), lx.line_, lx.column_)

\* Lexer::skipPascalComment: the loop after the brace, then the whole
RECURSIVE pascalCommentRest(_, _, _)
pascalCommentRest(lx, startLine, startCol) ==
    IF isAtEnd(lx) THEN error(lx, "unclosed comment", startLine, startCol, 1)
    ELSE IF peek(lx) = "}" THEN advance(lx)
    ELSE pascalCommentRest(advance(lx), startLine, startCol)

skipPascalComment(lx) == pascalCommentRest(advance(lx), lx.line_, lx.column_)

\* Lexer::skipWhitespaceAndComments: one round of the loop on the lexer w
\* left by skipWhitespace, then the loop
RECURSIVE skipWhitespaceAndComments(_)
skipComment(w) ==
    IF peek(w) = "/" /\ peekNext(w) = "/" THEN skipWhitespaceAndComments(skipLineComment(w))
    ELSE IF peek(w) = "/" /\ peekNext(w) = "*" THEN skipWhitespaceAndComments(skipBlockComment(w))
    ELSE IF peek(w) = "{" THEN skipWhitespaceAndComments(skipPascalComment(w))
    ELSE w

skipWhitespaceAndComments(lx) ==
    IF isAtEnd(lx) THEN lx ELSE skipComment(skipWhitespace(lx))

\* Lexer::keywords_
keywords_ ==
    (<<"p", "r", "o", "g", "r", "a", "m">> :> "KW_PROGRAM") @@
    (<<"c", "o", "n", "s", "t">> :> "KW_CONST") @@
    (<<"v", "a", "r">> :> "KW_VAR") @@
    (<<"p", "r", "o", "c", "e", "d", "u", "r", "e">> :> "KW_PROCEDURE") @@
    (<<"b", "e", "g", "i", "n">> :> "KW_BEGIN") @@
    (<<"e", "n", "d">> :> "KW_END") @@
    (<<"i", "f">> :> "KW_IF") @@
    (<<"t", "h", "e", "n">> :> "KW_THEN") @@
    (<<"e", "l", "s", "e">> :> "KW_ELSE") @@
    (<<"w", "h", "i", "l", "e">> :> "KW_WHILE") @@
    (<<"d", "o">> :> "KW_DO") @@
    (<<"f", "o", "r">> :> "KW_FOR") @@
    (<<"t", "o">> :> "KW_TO") @@
    (<<"d", "o", "w", "n", "t", "o">> :> "KW_DOWNTO") @@
    (<<"c", "a", "l", "l">> :> "KW_CALL") @@
    (<<"r", "e", "a", "d">> :> "KW_READ") @@
    (<<"w", "r", "i", "t", "e">> :> "KW_WRITE") @@
    (<<"o", "d", "d">> :> "KW_ODD") @@
    (<<"m", "o", "d">> :> "KW_MOD") @@
    (<<"n", "e", "w">> :> "KW_NEW") @@
    (<<"d", "e", "l", "e", "t", "e">> :> "KW_DELETE")

\* Lexer::makeToken(type), makeToken(type, literal), makeToken(type, value)
makeToken(lx, type) ==
    Token(type, getLexeme(lx), lx.tokenStartLine_, lx.tokenStartColumn_,
          utf8StringLen(getLexeme(lx)))

makeTokenLiteral(lx, type, literal) ==
    Token(type, literal, lx.tokenStartLine_, lx.tokenStartColumn_, utf8StringLen(literal))

makeTokenValue(lx, type, value) == [makeToken(lx, type) EXCEPT !.value = value]

\* what a scanner leaves: the lexer after the scan and the token it returns
scanned(lx, tok) == [lx |-> lx, tok |-> tok]

\* Lexer::scanIdentifierOrKeyword: the loop after the first character, the
\* keyword lookup on the lexer left by the loop, then the whole
RECURSIVE identifierRest(_)
identifierRest(lx) ==
    IF ~isAtEnd(lx) /\ isalnum(lx, peek(lx)) THEN identifierRest(advance(lx)) ELSE lx

identifierOrKeyword(lx) ==
    IF getLexeme(lx) \in DOMAIN keywords_
    THEN scanned(lx, makeToken(lx, keywords_[getLexeme(lx)]))
    ELSE scanned(lx, makeToken(lx, "IDENT"))

scanIdentifierOrKeyword(lx) == identifierOrKeyword(identifierRest(advance(markLexemeStart(lx))))

\* std::stoll on a string of digits
digitValue == ("0" :> 0) @@ ("1" :> 1)

RECURSIVE stoll(_)
stoll(lexeme) ==
    IF lexeme = <<>> THEN 0
    ELSE 10 * stoll(SubSeq(lexeme, 1, Len(lexeme) - 1)) + digitValue[lexeme[Len(lexeme)]]

\* Lexer::scanNumber: the digit loop, then the whole. A literal of a source
\* within MaxSrc has fewer than ten digits, so the overflow branches are not met.
RECURSIVE numberRest(_)
numberRest(lx) ==
    IF ~isAtEnd(lx) /\ isdigit(peek(lx)) THEN numberRest(advance(lx)) ELSE lx

number(lx) == scanned(lx, makeTokenValue(lx, "NUMBER", stoll(getLexeme(lx))))

scanNumber(lx) == number(numberRest(markLexemeStart(lx)))

\* Lexer::scanOperatorOrDelimiter: the switch on the character c just
\* consumed, on the lexer a left by advance
oneCharOperator ==
    ("+" :> "OP_PLUS") @@ ("-" :> "OP_MINUS") @@ ("*" :> "OP_MUL") @@ ("/" :> "OP_DIV") @@
    ("=" :> "OP_EQ") @@ ("&" :> "OP_ADDR") @@ ("(" :> "DL_LPAREN") @@ (")" :> "DL_RPAREN") @@
    ("[" :> "DL_LBRACKET") @@ ("]" :> "DL_RBRACKET") @@ ("," :> "DL_COMMA") @@
    (";" :> "DL_SEMICOLON") @@ ("." :> "DL_PERIOD")

operatorOrDelimiter(a, c) ==
    IF c = "<" /\ peek(a) = "=" THEN scanned(advance(a), makeToken(advance(a), "OP_LE"))
    ELSE IF c = "<" /\ peek(a) = ">" THEN scanned(advance(a), makeToken(advance(a), "OP_NE"))
    ELSE IF c = "<" THEN scanned(a, makeToken(a, "OP_LT"))
    ELSE IF c = ">" /\ peek(a) = "=" THEN scanned(advance(a), makeToken(advance(a), "OP_GE"))
    ELSE IF c = ">" THEN scanned(a, makeToken(a, "OP_GT"))
    ELSE IF c = ":" /\ peek(a) = "=" THEN scanned(advance(a), makeToken(advance(a), "OP_ASSIGN"))
    ELSE IF c = ":" THEN scanned(a, makeToken(a, "DL_COLON"))
    ELSE IF c \in DOMAIN oneCharOperator THEN scanned(a, makeToken(a, oneCharOperator[c]))
    ELSE scanned(a, makeToken(a, "UNKNOWN"))

scanOperatorOrDelimiter(lx) ==
    operatorOrDelimiter(advance(markLexemeStart(lx)), peek(lx))

\* Lexer::readUtf8Char: advance over the bytes of one character, n left to read
RECURSIVE readBytes(_, _)
readBytes(lx, n) ==
    IF n > 0 /\ ~isAtEnd(lx) THEN readBytes(advance(lx), n - 1) ELSE lx

readUtf8Char(lx) == IF isAtEnd(lx) THEN lx ELSE readBytes(lx, utf8CharLen(peek(lx)))

\* Lexer::scanUnknown: the greedy loop, the report on the lexer left by the
\* loop (m is the lexer at the start of the sequence), then the whole
RECURSIVE unknownRest(_)
unknownRest(lx) ==
    IF isAtEnd(lx) THEN lx
    ELSE IF isalnum(lx, peek(lx)) \/ isspace(peek(lx)) THEN lx
    ELSE IF isValidPunctStart(peek(lx)) THEN lx
    ELSE unknownRest(readUtf8Char(lx))

unknown(m, lx) ==
    scanned(error(lx, "illegal character sequence", m.line_, m.column_,
                  utf8StringLen(getLexeme(lx))),
            Token("UNKNOWN", getLexeme(lx), m.line_, m.column_, utf8StringLen(getLexeme(lx))))

scanUnknown(lx) == unknown(markLexemeStart(lx), unknownRest(markLexemeStart(lx)))

\* Lexer::nextToken with no buffered token: the dispatch on the lexer m
\* left by markLexemeStart, the part after skipWhitespaceAndComments, the whole
scanToken(m) ==
    IF isalpha(m, peek(m)) THEN scanIdentifierOrKeyword(m)
    ELSE IF isdigit(peek(m)) THEN scanNumber(m)
    ELSE IF isValidPunctStart(peek(m)) THEN scanOperatorOrDelimiter(m)
    ELSE scanUnknown(m)

tokenAfterSkip(s) ==
    IF isAtEnd(s) THEN scanned(s, makeTokenLiteral(s, "END_OF_FILE", <<>>))
    ELSE scanToken(markLexemeStart(s))

nextToken(lx) == tokenAfterSkip(skipWhitespaceAndComments(lx))

\* the lexer after nextToken returned r.tok, the token recorded
returned(r) == [r.lx EXCEPT !.tokens = Append(@, r.tok)]

\* longest source text
MaxSrc == 5

\* the bytes of the source texts: a letter, a digit, a blank, a newline, the
\* comment delimiters (slash and star are operators too) and the two bytes of
\* a two-byte character
SourceBytes == {"a", "1", " ", "\n", "/", "*", "{", "}", "C3", "A9"}

SourceTexts == UNION { [1..n -> SourceBytes] : n \in 0..MaxSrc }

\* Lexer::tokenize, one round of its loop: the next token is taken unless
\* the last one was END_OF_FILE
NextToken ==
    /\ phase = "lex"
    /\ IF lexer.tokens = <<>> THEN TRUE
       ELSE lexer.tokens[Len(lexer.tokens)].type # "END_OF_FILE"
    /\ lexer' = returned(nextToken(lexer))
    /\ UNCHANGED <<code, breakpoints, machine, mode, initialLine, op, callExec, entryState,
                   starts, codeOob, prog, ref, phase, heapVars, symTable, pendingInputAddr>>

\* SourceManager::loadString and Lexer::Lexer on the same source text
InitLex ==
    /\ \E source \in SourceTexts, hi \in BOOLEAN : lexer = Lexer(source, hi)
    /\ NewInterpreter(<<>>, <<>>)
    /\ prog = <<>>
    /\ ref = <<>>
    /\ phase = "lex"
    /\ NoHeapTrace
    /\ symTable = SymbolTable

NextLex == NextToken

SpecLex == InitLex /\ [][NextLex]_vars

\* the bytes of the source between the start of the line that holds byte
\* offset o and o itself
RECURSIVE lineStart(_, _)
lineStart(source, o) ==
    IF o = 0 \/ source[o] = "\n" THEN o ELSE lineStart(source, o - 1)

beforeOnLine(source, o) == SubSeq(source, lineStart(source, o) + 1, o)

\* s is well-formed UTF-8 from byte i on: every lead byte is followed by
\* its continuation bytes and no continuation byte stands alone
RECURSIVE wellFormedFrom(_, _)
wellFormedFrom(s, i) ==
    IF i > Len(s) THEN TRUE
    ELSE IF s[i] \in Continuation THEN FALSE
    ELSE /\ i + utf8CharLen(s[i]) - 1 <= Len(s)
         /\ \A j \in (i + 1)..(i + utf8CharLen(s[i]) - 1) : s[j] \in Continuation
         /\ wellFormedFrom(s, i + utf8CharLen(s[i]))

wellFormed(s) == wellFormedFrom(s, 1)

\* C24: every token the lexer returns, the end-of-file token included, has
\* its line between 1 and the source manager's line count, its column at
\* least 1 and, unless it is end-of-file, a length of at least 1.
TokenPositionsInSource ==
    \A i \in 1..Len(lexer.tokens) :
        /\ lexer.tokens[i].line \in 1..getLineCount(lexer.source_)
        /\ lexer.tokens[i].column >= 1
        /\ lexer.tokens[i].type # "END_OF_FILE" => lexer.tokens[i].length >= 1

\* C25: the column of every token other than end-of-file that nextToken
\* returns from a well-formed UTF-8 source is 1 plus the number of code
\* points that precede the token on its line.
ColumnCountsCodePoints ==
    [][(/\ lexer'.tokens # lexer.tokens
        /\ lexer'.tokens[Len(lexer'.tokens)].type # "END_OF_FILE"
        /\ wellFormed(lexer.source_))
        => lexer'.tokens[Len(lexer'.tokens)].column
             = 1 + utf8StringLen(beforeOnLine(lexer.source_, lexer'.lexemeBegin_))]_vars

\* ---------------------------------------------------------------------------
\* allocate is first-fit (C26)
\* ---------------------------------------------------------------------------

\* in the calls tr[i], tr[i+1], ... every deallocated address was returned by
\* allocate and not deallocated since; blocks are the addresses live before tr[i]
RECURSIVE properFrom(_, _, _)
properFrom(tr, i, blocks) ==
    IF i > Len(tr) THEN TRUE
    ELSE IF tr[i].op = "allocate" THEN properFrom(tr, i + 1, blocks \cup {tr[i].addr})
    ELSE tr[i].addr \in blocks /\ properFrom(tr, i + 1, blocks \ {tr[i].addr})

\* the heap was used properly so far: no address was deallocated twice
properUse == properFrom(trail, 1, {})

\* the step is a call of allocate that returned
allocateReturned ==
    /\ Len(trail') = Len(trail) + 1
    /\ trail'[Len(trail')].op = "allocate"

\* position in the chain fl of the first block of at least totalSize words, 0 if none
RECURSIVE firstFit(_, _, _, _)
firstFit(fl, s, totalSize, i) ==
    IF i > Len(fl) THEN 0
    ELSE IF s[fl[i]] >= totalSize THEN i
    ELSE firstFit(fl, s, totalSize, i + 1)

\* the chain fl with its k-th block replaced by the blocks of seq
replaceBlock(fl, k, seq) == SubSeq(fl, 1, k - 1) \o seq \o SubSeq(fl, k + 1, Len(fl))

\* the words of the store that differ between s and t
changedWords(s, t) == { a \in DOMAIN s : s[a] # t[a] }

\* allocate(size) on a free list whose first fitting block is the k-th, at
\* address b, returning address addr
allocateFromBlock(fl, k, b, size, addr) ==
    LET totalSize == size + 1
        remaining == store[b] - totalSize
    IN  /\ addr = b + 1
        /\ H' = H
        /\ store'[b] = size
        /\ IF remaining >= 2
           THEN /\ FreeBlocks' = replaceBlock(fl, k, <<b + totalSize>>)
                /\ store'[b + totalSize] = remaining
                /\ store'[b + totalSize + 1] = store[b + 1]
                /\ changedWords(store, store') \subseteq
                     {b, b + totalSize, b + totalSize + 1}
                       \cup (IF k = 1 THEN {} ELSE {fl[k - 1] + 1})
           ELSE /\ FreeBlocks' = replaceBlock(fl, k, <<>>)
                /\ changedWords(store, store') \subseteq
                     {b} \cup (IF k = 1 THEN {} ELSE {fl[k - 1] + 1})

\* allocate(size) when no free block fits, returning address addr
allocateByGrowing(size, addr) ==
    /\ H' = H - (size + 1)
    /\ freeListHead' = freeListHead
    /\ IF H' <= T
       THEN addr = -1 /\ store' = store
       ELSE addr = H' + 1 /\ store' = [store EXCEPT ![H'] = size]

firstFitStep(fl, k, size, addr) ==
    IF k # 0 THEN allocateFromBlock(fl, k, fl[k], size, addr)
    ELSE allocateByGrowing(size, addr)

\* C26: after proper use of the heap, allocate(size) on a free list that ends takes the first block of the
\* list with at least size+1 words; with a remainder of two words or more it
\* carves size+1 words at the low end and links the remainder in the block's
\* place, otherwise it unlinks the whole block; the header becomes size and
\* block+1 is returned. Only when no block fits is H lowered by size+1, and
\* -1 returned if then H <= T.
AllocateIsFirstFit ==
    [][(allocateReturned /\ properUse /\ chainEnds(store, freeListHead, StoreSize))
        => firstFitStep(FreeBlocks,
                        firstFit(FreeBlocks, store, trail'[Len(trail')].size + 1, 1),
                        trail'[Len(trail')].size,
                        trail'[Len(trail')].addr)]_vars

\* the last call of allocate split a free block behind a smaller one: it
\* returned an address inside the old heap region, its remainder is on the
\* free list and is not the head of the list
AllocateSplitBehindSmaller ==
    /\ trail # <<>>
    /\ trail[Len(trail)].op = "allocate"
    /\ trail[Len(trail)].oldH = H
    /\ properUse
    /\ chainEnds(store, freeListHead, StoreSize)
    /\ \E i \in 2..Len(FreeBlocks) :
         FreeBlocks[i] = trail[Len(trail)].addr + trail[Len(trail)].size

\* ---------------------------------------------------------------------------
\* Conservation of heap words (C29)
\* ---------------------------------------------------------------------------

\* the words of the free blocks fl[i], fl[i+1], ...
RECURSIVE freeWords(_, _)
freeWords(fl, i) == IF i > Len(fl) THEN 0 ELSE store[fl[i]] + freeWords(fl, i + 1)

\* header and data words of the allocated blocks at the addresses of blocks
RECURSIVE allocatedWords(_)
allocatedWords(blocks) ==
    IF blocks = {} THEN 0
    ELSE LET a == CHOOSE x \in blocks : TRUE
         IN  store[a - 1] + 1 + allocatedWords(blocks \ {a})

\* C29: after any sequence of allocate and deallocate calls that all returned,
\* none failing, in which every deallocated address came from allocate and was
\* freed once, the words of the free blocks plus size+1 words for every live
\* block add up to the heap region, storeSize - H.
HeapWordsConserved ==
    (running /\ mode = "idle" /\ properUse /\ chainEnds(store, freeListHead, StoreSize))
        => freeWords(FreeBlocks, 1) + allocatedWords(live) = StoreSize - H

\* ---------------------------------------------------------------------------
\* enterScope ... leaveScope restores the live table (C28)
\* ---------------------------------------------------------------------------

\* the table after the calls tr[1..n] on a new SymbolTable
RECURSIVE tableAfter(_, _)
tableAfter(tr, n) ==
    IF n = 0 THEN SymbolTable
    ELSE IF tr[n].op = "enterScope" THEN enterScope(tableAfter(tr, n - 1))
    ELSE IF tr[n].op = "leaveScope" THEN leaveScope(tableAfter(tr, n - 1))
    ELSE registerSymbol(tableAfter(tr, n - 1), tr[n].name, "variable", 3).table

\* the calls tr[i..n] are enterScope, registerSymbol calls only, leaveScope
scopeRoundTrip(tr, i, n) ==
    /\ i < n
    /\ tr[i].op = "enterScope"
    /\ tr[n].op = "leaveScope"
    /\ \A j \in (i + 1)..(n - 1) : tr[j].op = "registerSymbol"

\* table now against the table before the enterScope and the table inScope
\* just before the leaveScope
restored(before, inScope, now) ==
    /\ now.symbolStack_ = before.symbolStack_
    /\ now.currentLevel_ = before.currentLevel_
    /\ \A name \in SymNames : lookup(now, name) = lookup(before, name)
    /\ \A n \in DOMAIN now.hashTable_ : \A k \in 1..Len(now.hashTable_[n]) :
          now.hashTable_[n][k] < Len(now.symbolStack_)
    /\ now.allSymbols_ = inScope.allSymbols_
    /\ \A k \in 1..Len(inScope.symbolStack_) :
          \E h \in 1..Len(now.allSymbols_) : now.allSymbols_[h] = inScope.symbolStack_[k]

\* C28: enterScope, any registerSymbol calls, then leaveScope leave the symbol
\* stack, currentLevel and lookup of every name as before enterScope, no index
\* of a popped symbol in the hash map, and every symbol registered in the scope
\* in the history vector; leaveScope at level 0 changes nothing.
ScopeRestored ==
    /\ \A i \in 1..Len(trail) :
          scopeRoundTrip(trail, i, Len(trail))
            => restored(tableAfter(trail, i - 1), tableAfter(trail, Len(trail) - 1), symTable)
    /\ (/\ phase = "symbols"
        /\ trail # <<>>
        /\ trail[Len(trail)].op = "leaveScope"
        /\ tableAfter(trail, Len(trail) - 1).currentLevel_ = 0)
          => symTable = tableAfter(trail, Len(trail) - 1)

\* a scope that shadowed an outer symbol was left: the symbol registered in
\* the scope is popped and the outer one of the same name is found again
ShadowingScopeLeft ==
    /\ phase = "symbols"
    /\ Len(trail) >= 4
    /\ scopeRoundTrip(trail, Len(trail) - 2, Len(trail))
    /\ lookup(tableAfter(trail, Len(trail) - 1), trail[Len(trail) - 1].name)
         = Len(symTable.symbolStack_)
    /\ lookup(symTable, trail[Len(trail) - 1].name) \in 0..(Len(symTable.symbolStack_) - 1)

\* ---------------------------------------------------------------------------
\* The control-flow graph and the remapped jump targets (C27, C30)
\* ---------------------------------------------------------------------------

\* steps 1 and 2 of optimize: the blocks after the local passes
localBlocks(c) == optimizeBlocks(buildBasicBlocks(c, analyzeJumpTargets(c)))

\* step 4 of optimize: the ids of the blocks marked reachable
reachable(blocks) == IF blocks = <<>> THEN {} ELSE markReachable(blocks, {0})

\* the next block in sequence after b, if there is one
nextBlock(blocks, b) == IF b.id + 1 < Len(blocks) THEN {b.id + 1} ELSE {}

\* the successors of block b by the rule: JMP, the target; JPC, the target
\* and the next block; OPR RET, none; everything else, an emptied block
\* included, the next block
ruleSuccessors(blocks, b, last) ==
    IF b.instructions = <<>> THEN nextBlock(blocks, b)
    ELSE IF last.op = "JMP" THEN {addrToBlock(blocks, last.A)} \ {-1}
    ELSE IF last.op = "JPC" THEN ({addrToBlock(blocks, last.A)} \ {-1}) \cup nextBlock(blocks, b)
    ELSE IF IsRet(last) THEN {}
    ELSE nextBlock(blocks, b)

lastOf(b) == IF b.instructions = <<>> THEN <<>> ELSE b.instructions[Len(b.instructions)]

successorsByRule(blocks) ==
    \A k \in 1..Len(blocks) :
        successors(blocks, blocks[k]) = ruleSuccessors(blocks, blocks[k], lastOf(blocks[k]))

\* C27: in the control-flow graph built after the local passes a block ending
\* in JMP has its target as successor, one ending in JPC its target and the
\* next block, one ending in OPR RET none, and every other block, a block
\* whose instructions were all removed included, the next block in sequence.
CfgFollowsFallThrough == phase = "once" => successorsByRule(localBlocks(prog))

\* for every instruction that optimize keeps, in order: the id of its block
\* and the instruction before the targets are remapped
RECURSIVE kept(_, _, _)
kept(blocks, reach, k) ==
    IF k > Len(blocks) THEN <<>>
    ELSE (IF (k - 1) \in reach
          THEN [ j \in 1..Len(blocks[k].instructions) |->
                   [block |-> k - 1, instr |-> blocks[k].instructions[j]] ]
          ELSE <<>>)
         \o kept(blocks, reach, k + 1)

\* address a is the position, in the kept instructions ks, of the first
\* instruction of block id
firstOfBlock(ks, id, a) ==
    /\ a \in 0..(Len(ks) - 1)
    /\ ks[a + 1].block = id
    /\ \A q \in 1..a : ks[q].block # id

\* every jump of the output out lands in the output, on the first kept
\* instruction of the block that started at its original target
targetsRemapped(blocks, ks, out) ==
    /\ Len(out) = Len(ks)
    /\ \A i \in 1..Len(out) :
          IsJump(out[i]) =>
              /\ out[i].A \in 0..(Len(out) - 1)
              /\ firstOfBlock(ks, addrToBlock(blocks, ks[i].instr.A), out[i].A)

jumpsInRange(c) == \A i \in 1..Len(c) : IsJump(c[i]) => c[i].A \in 0..(Len(c) - 1)

\* C30: when every JMP/JPC of the input has a target in [0, |P|), every
\* JMP/JPC of optimize(P) has a target in [0, |optimize(P)|), and the target
\* is the new position of the first surviving instruction of the block that
\* started at the original target address.
JumpTargetsRemapped ==
    (phase = "once" /\ jumpsInRange(prog))
        => targetsRemapped(localBlocks(prog),
                           kept(localBlocks(prog), reachable(localBlocks(prog)), 1),
                           code)

====
